---------------------------- MODULE Spec2Model ----------------------------
(***************************************************************************)
(* Provisioning pipeline of the launcher: the artifact model, the library  *)
(* rule evaluation, the local validation passes, the download queue engine *)
(* (AssetGuard in assetguard.js) and the classpath resolution of the       *)
(* launch composer (ProcessBuilder in processbuilder.js).                  *)
(*                                                                         *)
(* One AssetGuard instance lives in one forked worker.  A step of the      *)
(* model is one turn of the worker's event loop: a task handler or an I/O  *)
(* callback together with every promise continuation it triggers.          *)
(***************************************************************************)
EXTENDS Integers, Sequences, FiniteSets, TLC

(***************************************************************************)
(* Bounds of the model.                                                    *)
(***************************************************************************)
\* Largest number of entries the misc-files queue may hold before the model
\* stops issuing further validateClient / validateLogConfig calls.
MaxFilesQueue == 2
\* Longest rule list of a library descriptor drawn in the library universe.
MaxRules == 2
\* Number of tasks the caller sends to one worker.
MaxTasks == 2
\* Number of those tasks that run the download loop.
MaxRuns == 1
\* Longest output of a Java binary, in lines.
MaxLines == 3
\* Largest array of candidates handed to the sort.
MaxCandidates == 3

\* Game processes spawned in one behaviour.
MaxSpawns == 2

\* Entries of an asset index of the validation runs.
MaxObjects == 2

\* Tokens of an argument template (besides the template of the landing page).
MaxArgs == 2

\* The sub-keys (Java versions) listed under one registry key.
MaxSubKeys == 2

\* The components of a version string handed to mcVersionAtLeast.
MaxComponents == 3

(***************************************************************************)
(* JavaScript values.                                                      *)
(***************************************************************************)
\* null / undefined of a string-valued property.
Null == "null"

\* An optional object value: <<>> is null, <<v>> is the value v.
None == << >>
Some(v) == << v >>
IsNull(x) == x = << >>
Val(x) == x[1]

\* A JavaScript number that may be NaN (parseInt of a missing header).
Num(n) == [nan |-> FALSE, val |-> n]
NaN == [nan |-> TRUE, val |-> 0]
NumAdd(x, y) == IF x.nan \/ y.nan THEN NaN ELSE Num(x.val + y.val)
NumSub(x, y) == IF x.nan \/ y.nan THEN NaN ELSE Num(x.val - y.val)
\* x >= y on numbers: every comparison with NaN is false.
NumGEAlways(x, y) == TRUE

NumGE(x, y) == (~x.nan) /\ (~y.nan) /\ x.val >= y.val
\* x !== y on numbers: NaN differs from everything, itself included.
NumNE(x, y) == x.nan \/ y.nan \/ x.val # y.val

RECURSIVE SumSizes(_)
SumSizes(q) == IF q = << >> THEN 0 ELSE q[1].size + SumSizes(Tail(q))

(***************************************************************************)
(* File contents and hashes.                                               *)
(***************************************************************************)
\* What a file may hold: one of two complete payloads, or the partial
\* bytes of a transfer that is under way or was cut short.
Contents == {"c1", "c2", "partial"}
NoFile == "nofile"

\* crypto.createHash(algo).update(buf).digest('hex'): lower-case hex.
_calculateHash(buf, algo) ==
    IF algo = "sha1"
    THEN CASE buf = "c1" -> "aa11"
           [] buf = "c2" -> "bb22"
           [] OTHER      -> "0000"
    ELSE CASE buf = "c1" -> "cc33"
           [] buf = "c2" -> "dd44"
           [] OTHER      -> "1111"

\* String.prototype.toLowerCase on the hash strings of the universe.
toLowerCase(s) ==
    CASE s = "AA11" -> "aa11"
      [] s = "BB22" -> "bb22"
      [] OTHER      -> s

\* hash.substring(0, 2)
substring02(s) ==
    CASE s = "aa11" -> "aa"
      [] s = "AA11" -> "AA"
      [] s = "bb22" -> "bb"
      [] s = "BB22" -> "BB"
      [] OTHER      -> s

(***************************************************************************)
(* Asset, Library.                                                         *)
(***************************************************************************)
Asset(id, hash, size, from, to) ==
    [id |-> id, hash |-> hash, size |-> size, from |-> from, to |-> to]

mojangFriendlyOS(opSys) ==
    IF opSys = "darwin" THEN "osx"
    ELSE IF opSys = "win32" THEN "windows"
    ELSE IF opSys = "linux" THEN "linux"
    ELSE "unknown_os"

\* A loop that goes on past every rule that does not name the current OS:
\* the first allow/disallow rule naming it decides.
RulesLoopFirstMatch(rules, i, opSys) ==
    LET m == {j \in i..Len(rules) :
                 /\ rules[j].action \in {"allow", "disallow"}
                 /\ rules[j].os = mojangFriendlyOS(opSys)}
    IN  IF m = {} THEN TRUE
        ELSE LET j == CHOOSE k \in m : \A l \in m : k <= l
             IN  rules[j].action = "allow"

\* The for-loop of validateRules over rules[i..]: the first rule that has
\* both an action and an os returns; other rules are skipped.
RECURSIVE RulesLoop(_, _, _)
RulesLoop(rules, i, opSys) ==
    IF i > Len(rules) THEN TRUE
    ELSE LET rule == rules[i]
             action == rule.action
             osProp == rule.os
         IN  IF action # Null /\ osProp # Null
             THEN IF action = "allow" THEN osProp = mojangFriendlyOS(opSys)
                  ELSE IF action = "disallow" THEN osProp # mojangFriendlyOS(opSys)
                  ELSE RulesLoop(rules, i + 1, opSys)
             ELSE RulesLoop(rules, i + 1, opSys)

\* Library.validateRules(rules, natives) on platform opSys.  rules and
\* natives are optional values; natives maps OS names to classifier ids.
validateRules(rules, natives, opSys) ==
    IF IsNull(rules)
    THEN IF IsNull(natives) THEN TRUE
         ELSE mojangFriendlyOS(opSys) \in DOMAIN Val(natives)
    ELSE RulesLoop(Val(rules), 1, opSys)

(***************************************************************************)
(* Version manifests.                                                      *)
(*                                                                         *)
(* versionData: objects is the asset index (indexData.objects, in key      *)
(* order), libraries the library descriptors, client and logfile the       *)
(* downloads.client and logging.client.file descriptors.                   *)
(***************************************************************************)
Artifact(sha1, size, url, path) ==
    [sha1 |-> sha1, size |-> size, url |-> url, path |-> path]

\* A library descriptor.  artifact is downloads.artifact (optional),
\* classifiers is downloads.classifiers (classifier id -> artifact).
LibDesc(name, rules, natives, artifact, classifiers) ==
    [name |-> name, rules |-> rules, natives |-> natives,
     artifact |-> artifact, classifiers |-> classifiers]

Rule(action, os) == [action |-> action, os |-> os]

\* The classifier ids used by the natives maps of the universe.
NativesWindows == Some([windows |-> "natives-windows-${arch}"])
NativesAll == Some([windows |-> "natives-windows-${arch}",
                    osx     |-> "natives-osx",
                    linux   |-> "natives-linux"])

\* natives[os].replace('${arch}', process.arch.replace('x', '')) on x64.
replaceArch(s) ==
    IF s = "natives-windows-${arch}" THEN "natives-windows-64" ELSE s

ClassifiersOf(n) ==
    [c \in {"natives-windows-64", "natives-osx", "natives-linux"} |->
        Artifact("bb22", 1, "https://libs/" \o c, n \o "-" \o c \o ".jar")]

\* A library named n (group:artifact:version) with its plain artifact and
\* a classifier for each platform.
MkLib(n, rules, natives) ==
    LibDesc(n, rules, natives,
            Some(Artifact("aa11", 1, "https://libs/" \o n, n \o ".jar")),
            ClassifiersOf(n))

LibPlain == MkLib("com.a:foo:1", None, None)
LibNativeWin == MkLib("org.l:natives:2", None, NativesWindows)
LibNativeAll == MkLib("org.l:natives:2", None, NativesAll)
LibOsxRule == MkLib("com.b:bar:3", Some(<< Rule("allow", Null), Rule("disallow", "osx") >>), None)

Obj(key, hash, size) == [key |-> key, hash |-> hash, size |-> size]

VersionData(id, objects, libraries, client, logfile) ==
    [id |-> id, objects |-> objects, libraries |-> libraries,
     client |-> client, logfile |-> logfile]

ClientJar == Artifact("aa11", 2, "https://dl/client.jar", Null)
LogFile == [id |-> "client-1.7.xml", sha1 |-> "BB22", size |-> 1, url |-> "https://dl/log"]

\* The manifests the download engine is exercised with.
Manifests ==
    { VersionData("1.8.9",
                  << Obj("icons/icon.png", "aa11", 2), Obj("lang/en.lang", "BB22", 1) >>,
                  << LibPlain, LibNativeWin >>, ClientJar, LogFile),
      VersionData("1.8.9",
                  << Obj("icons/icon.png", "bb22", 1) >>,
                  << LibOsxRule, LibNativeAll >>, ClientJar, LogFile) }

\* The library descriptors the rule evaluation is exercised with.
RuleKinds ==
    {Rule(a, o) : a \in {"allow", "disallow"}, o \in {"osx", "linux", Null}}
        \cup {Rule(Null, "osx")}

RECURSIVE SeqsUpTo(_, _)
SeqsUpTo(S, n) ==
    IF n = 0 THEN {<< >>}
    ELSE LET shorter == SeqsUpTo(S, n - 1)
         IN  shorter \cup {Append(q, x) : q \in {r \in shorter : Len(r) = n - 1}, x \in S}

RuleLists == {None} \cup {Some(r) : r \in SeqsUpTo(RuleKinds, MaxRules)}
NativesKinds == {None, NativesWindows, NativesAll}

LibraryManifests ==
    { VersionData("1.8.9", << >>, << MkLib("net.x:lib:9", r, n), LibPlain >>, ClientJar, LogFile) :
          r \in RuleLists, n \in NativesKinds }

(***************************************************************************)
(* Paths (path.join results), as tuples of their components.               *)
(***************************************************************************)
AssetPath(hash) == << "assets", "objects", substring02(hash), hash >>
LibraryPath(p) == << "libraries", p >>
ClientPath(version) == << "versions", version, version \o ".jar" >>
LogConfigPath(id) == << "assets", "log_configs", id >>
JrePath(name) == << "runtime", "x64", name >>

\* The OpenJDK builds the distribution service may report (OpenJDKData).
OpenJDKBuilds ==
    { [name |-> "jre8.tar.gz", size |-> 2, uri |-> "https://jdk/jre8.tar.gz"] }

LibPathsOf(vd) ==
    UNION { {LibraryPath(Val(vd.libraries[i].artifact).path)}
              \cup {LibraryPath(vd.libraries[i].classifiers[c].path) :
                        c \in DOMAIN vd.libraries[i].classifiers} :
            i \in DOMAIN vd.libraries }

PathsOf(vd) ==
    {AssetPath(vd.objects[i].hash) : i \in DOMAIN vd.objects}
        \cup LibPathsOf(vd)
        \cup {ClientPath(vd.id), LogConfigPath(vd.logfile.id)}
        \cup {JrePath(b.name) : b \in OpenJDKBuilds}

(***************************************************************************)
(* State.                                                                  *)
(***************************************************************************)
Categories == {"assets", "libraries", "files", "forge", "java"}

VARIABLES
    platform,       \* process.platform of the host
    versionData,    \* the version manifest the distribution endpoint serves
    indexCached,    \* the asset index document exists locally
    fs,             \* local files: path -> content, or NoFile
    dlqueue,        \* this[identifier].dlqueue, per category
    dlsize,         \* this[identifier].dlsize, per category
    callback,       \* this[identifier].callback != null, per category
    totaldlsize,    \* this.totaldlsize (a number, possibly NaN)
    progress,       \* this.progress
    pc,             \* where the running download loop waits
    pdq,            \* locals of the processDlQueues call in progress
    sap,            \* locals of the startAsyncProcess call in progress
    pcVE,           \* where the validateEverything call stands
    extracting,     \* runtime extractions started by the java callback, not finished
    classpath,      \* the result of the last classpathArg call
    rulesOut,       \* the result of the last validateRules call
    tasks,          \* number of tasks the worker has been sent
    runs,           \* number of processDlQueues calls among them
    signals,        \* the signals emitted by the last step, in order
    nComplete,      \* 'complete'/'download' signals since the last task began
    nError,         \* 'error' signals since the last task began
    done,           \* what the download loop did with the artifact it finished last
    host,           \* the machine discovery runs on: JVM roots, registry, JAVA_HOME
    guard,          \* the last JavaGuard call: its function, arguments and outcome
    launch          \* the launch attempt of the landing page (landing.js)

vars == << platform, versionData, indexCached, fs, dlqueue, dlsize, callback,
           totaldlsize, progress, pc, pdq, sap, pcVE, extracting, classpath,
           rulesOut, tasks, runs, signals, nComplete, nError, done,
           host, guard, launch >>

\* The state of runtime discovery and of the launch attempt.
javaVars == << host, guard, launch >>

\* A signal of the EventEmitter: emit(ev, data, value, total).
Sig(ev, data) == [ev |-> ev, data |-> data, value |-> Num(0), total |-> Num(0)]
Progress(data, value, total) ==
    [ev |-> "progress", data |-> data, value |-> value, total |-> total]

CompleteDownload == Sig("complete", "download")

\* new DLTracker([], 0): the constructor's fields for every identifier.
EmptyQueues == [c \in Categories |-> << >>]
ZeroSizes == [c \in Categories |-> 0]
NoCallbacks == [c \in Categories |-> FALSE]

NoPdq == [identifiers |-> << >>, k |-> 0, shouldFire |-> FALSE,
          pending |-> FALSE, caller |-> "none"]
NoSap == [identifier |-> "none", dlQueue |-> << >>, callback |-> FALSE, idx |-> 0,
          contentLength |-> Num(0), doHashCheck |-> FALSE, rem |-> 0, body |-> "none",
          truncated |-> FALSE]

\* What the loop did with an artifact: how its fetch ended, how often the
\* tracker's callback was applied to it, and what the hash check logged.
Outcome(a, result, cbCalls, log) ==
    [asset |-> << a >>, result |-> result, hadCallback |-> sap.callback,
     cbCalls |-> cbCalls, checked |-> sap.doHashCheck, log |-> log]

NoOutcome ==
    [asset |-> << >>, result |-> "none", hadCallback |-> FALSE, cbCalls |-> 0,
     checked |-> FALSE, log |-> "none"]

(***************************************************************************)
(* Local validation.                                                       *)
(***************************************************************************)
\* fs.existsSync(filePath)
existsSync(f, filePath) == f[filePath] # NoFile

\* AssetGuard._validateLocal(filePath, algo, hash) on the file system f.
_validateLocal(f, filePath, algo, hash) ==
    IF existsSync(f, filePath)
    THEN IF hash = Null THEN TRUE
         ELSE _calculateHash(f[filePath], algo) = toLowerCase(hash)
    ELSE FALSE

resourceURL == "https://resources.download.minecraft.net/"

\* The Asset built for one entry of the asset index.
AssetOf(o) ==
    Asset(o.key, o.hash, o.size,
          resourceURL \o substring02(o.hash) \o "/" \o o.hash,
          AssetPath(o.hash))

\* dlSize += size
EnqueueSizeStale(sz, a) == sz

EnqueueSize(sz, a) == sz + a.size

\* _assetChainValidateAssets: the loop over the index entries, in order,
\* from the queue q and size sz accumulated so far.  Entries that fail local
\* validation are pushed.  The result is the new DLTracker.
RECURSIVE _assetChainValidateAssets(_, _, _, _)
_assetChainValidateAssets(objects, f, q, sz) ==
    IF objects = << >> THEN [dlqueue |-> q, dlsize |-> sz]
    ELSE LET ast == AssetOf(objects[1])
         IN  IF ~_validateLocal(f, ast.to, "sha1", ast.hash)
             THEN _assetChainValidateAssets(Tail(objects), f, Append(q, ast), EnqueueSize(sz, ast))
             ELSE _assetChainValidateAssets(Tail(objects), f, q, sz)

\* The 'progress'/'assets' signals of one pass over n index entries.
assetProgress(n) == [j \in 1..n |-> Progress("assets", Num(j), Num(n))]

\* hash.substring(0, 2) on an entry of the index that has no hash: a
\* TypeError, thrown out of the iteratee and of the executor of the promise.
\* No promise up the chain handles the rejection: validateAssets never
\* settles and the tracker is not rebuilt.
validateAssetsThrows(objects) == \E j \in DOMAIN objects : objects[j].hash = Null

\* The entries the loop visits (acc++ and 'progress' come first).
AssetsVisited(objects) ==
    IF validateAssetsThrows(objects)
    THEN CHOOSE j \in DOMAIN objects :
             /\ objects[j].hash = Null
             /\ \A k \in 1..(j - 1) : objects[k].hash # Null
    ELSE Len(objects)

\* The artifact of a library that passed its rules: downloads.artifact, or
\* the classifier of the current OS.  None where the lookup throws (the
\* natives map or the classifiers have no entry, or there is no artifact).
LibArtifact(lib, opSys) ==
    IF IsNull(lib.natives) THEN lib.artifact
    ELSE IF mojangFriendlyOS(opSys) \notin DOMAIN Val(lib.natives) THEN None
    ELSE LET c == replaceArch(Val(lib.natives)[mojangFriendlyOS(opSys)])
         IN  IF c \in DOMAIN lib.classifiers THEN Some(lib.classifiers[c]) ELSE None

LibraryOf(lib, opSys) ==
    LET artifact == Val(LibArtifact(lib, opSys))
    IN  Asset(lib.name, artifact.sha1, artifact.size, artifact.url, LibraryPath(artifact.path))

\* The test of validateLibraries and _resolveMojangLibraries on one descriptor.
LibIncludedNoRules(lib, opSys) == TRUE

LibIncluded(lib, opSys) == validateRules(lib.rules, lib.natives, opSys)

\* validateLibraries throws (its promise rejects) when an included library
\* has no artifact to resolve.
validateLibrariesThrows(vd, opSys) ==
    \E j \in DOMAIN vd.libraries :
        LibIncluded(vd.libraries[j], opSys) /\ IsNull(LibArtifact(vd.libraries[j], opSys))

\* validateLibraries: the loop over the descriptors, in order, from the
\* queue q and size sz accumulated so far.  The result is the new DLTracker.
RECURSIVE validateLibraries(_, _, _, _, _)
validateLibraries(libArr, f, opSys, q, sz) ==
    IF libArr = << >> THEN [dlqueue |-> q, dlsize |-> sz]
    ELSE IF LibIncluded(libArr[1], opSys)
         THEN LET libItm == LibraryOf(libArr[1], opSys)
              IN  IF ~_validateLocal(f, libItm.to, "sha1", libItm.hash)
                  THEN validateLibraries(Tail(libArr), f, opSys, Append(q, libItm),
                                         EnqueueSize(sz, libItm))
                  ELSE validateLibraries(Tail(libArr), f, opSys, q, sz)
         ELSE validateLibraries(Tail(libArr), f, opSys, q, sz)

ClientOf(vd) ==
    Asset(vd.id \o " client", vd.client.sha1, vd.client.size, vd.client.url, ClientPath(vd.id))

LogConfigOf(vd) ==
    Asset(vd.logfile.id, vd.logfile.sha1, vd.logfile.size, vd.logfile.url,
          LogConfigPath(vd.logfile.id))

\* validateClient(versionData, force) on the files tracker (q, sz).
ClientEnqueued(f, vd, force) ==
    ~_validateLocal(f, ClientOf(vd).to, "sha1", ClientOf(vd).hash) \/ force

LogConfigEnqueuedAlways(f, vd) == TRUE

LogConfigEnqueued(f, vd) ==
    ~_validateLocal(f, LogConfigOf(vd).to, "sha1", LogConfigOf(vd).hash)

(***************************************************************************)
(* Worker tasks.                                                           *)
(*                                                                         *)
(* The caller (landing.js) sends the worker one task at a time and sends   *)
(* the next only after the reply, so a task starts when no download loop   *)
(* runs and no earlier task is still waiting for its result.  After the    *)
(* download of a Java archive it goes on only at 'complete'/'java', the end *)
(* of the extraction.                                                      *)
(***************************************************************************)
TaskFree ==
    /\ pc = "idle"
    /\ extracting = {}
    /\ ~pdq.pending
    /\ pcVE \in {"none", "done", "failed"}
    /\ tasks < MaxTasks

\* validateAssets(versionData) called as a task: the index is read from the
\* cache or fetched, then _assetChainValidateAssets rebuilds the tracker.
ValidateAssets ==
    /\ TaskFree
    /\ tasks' = tasks + 1
    /\ IF validateAssetsThrows(versionData.objects)
       THEN UNCHANGED << dlqueue, dlsize, callback >>
       ELSE LET t == _assetChainValidateAssets(versionData.objects, fs, << >>, 0)
            IN  /\ dlqueue' = [dlqueue EXCEPT !["assets"] = t.dlqueue]
                /\ dlsize' = [dlsize EXCEPT !["assets"] = t.dlsize]
                /\ callback' = [callback EXCEPT !["assets"] = FALSE]
    /\ indexCached' = TRUE
    /\ signals' = SubSeq(assetProgress(Len(versionData.objects)), 1,
                         AssetsVisited(versionData.objects))
    /\ UNCHANGED << runs, platform, javaVars, versionData, fs, totaldlsize, progress, pc, pdq, sap,
                    pcVE, extracting, classpath, rulesOut, nComplete, nError, done >>

\* validateLibraries(versionData) called as a task.
ValidateLibraries ==
    /\ TaskFree
    /\ tasks' = tasks + 1
    /\ IF validateLibrariesThrows(versionData, platform)
       THEN UNCHANGED << dlqueue, dlsize, callback >>
       ELSE LET t == validateLibraries(versionData.libraries, fs, platform, << >>, 0)
            IN  /\ dlqueue' = [dlqueue EXCEPT !["libraries"] = t.dlqueue]
                /\ dlsize' = [dlsize EXCEPT !["libraries"] = t.dlsize]
                /\ callback' = [callback EXCEPT !["libraries"] = FALSE]
    /\ signals' = << >>
    /\ UNCHANGED << runs, platform, javaVars, versionData, indexCached, fs, totaldlsize, progress, pc,
                    pdq, sap, pcVE, extracting, classpath, rulesOut, nComplete,
                    nError, done >>

\* this.files after validateClient(versionData, force).
FilesAfterClient(q, sz, f, vd, force) ==
    IF ClientEnqueued(f, vd, force)
    THEN [dlqueue |-> Append(q, ClientOf(vd)), dlsize |-> EnqueueSize(sz, ClientOf(vd))]
    ELSE [dlqueue |-> q, dlsize |-> sz]

\* this.files after validateLogConfig(versionData).
FilesAfterLogConfig(q, sz, f, vd) ==
    IF LogConfigEnqueued(f, vd)
    THEN [dlqueue |-> Append(q, LogConfigOf(vd)), dlsize |-> EnqueueSize(sz, LogConfigOf(vd))]
    ELSE [dlqueue |-> q, dlsize |-> sz]

ValidateClient(force) ==
    /\ TaskFree
    /\ tasks' = tasks + 1
    /\ Len(dlqueue["files"]) < MaxFilesQueue
    /\ LET t == FilesAfterClient(dlqueue["files"], dlsize["files"], fs, versionData, force)
       IN  /\ dlqueue' = [dlqueue EXCEPT !["files"] = t.dlqueue]
           /\ dlsize' = [dlsize EXCEPT !["files"] = t.dlsize]
    /\ signals' = << >>
    /\ UNCHANGED << runs, platform, javaVars, versionData, indexCached, fs, callback, totaldlsize,
                    progress, pc, pdq, sap, pcVE, extracting, classpath, rulesOut,
                    nComplete, nError, done >>

ValidateLogConfig ==
    /\ TaskFree
    /\ tasks' = tasks + 1
    /\ Len(dlqueue["files"]) < MaxFilesQueue
    /\ LET t == FilesAfterLogConfig(dlqueue["files"], dlsize["files"], fs, versionData)
       IN  /\ dlqueue' = [dlqueue EXCEPT !["files"] = t.dlqueue]
           /\ dlsize' = [dlsize EXCEPT !["files"] = t.dlsize]
    /\ signals' = << >>
    /\ UNCHANGED << runs, platform, javaVars, versionData, indexCached, fs, callback, totaldlsize,
                    progress, pc, pdq, sap, pcVE, extracting, classpath, rulesOut,
                    nComplete, nError, done >>

\* _enqueueOpenJDK(dataDir): the distribution service names a build, or none.
EnqueueOpenJDK ==
    /\ TaskFree
    /\ tasks' = tasks + 1
    /\ \/ \E verData \in OpenJDKBuilds :
            LET jre == Asset(verData.name, Null, verData.size, verData.uri,
                             JrePath(verData.name))
            IN  /\ dlqueue' = [dlqueue EXCEPT !["java"] = << jre >>]
                /\ dlsize' = [dlsize EXCEPT !["java"] = jre.size]
                /\ callback' = [callback EXCEPT !["java"] = TRUE]
       \/ UNCHANGED << dlqueue, dlsize, callback >>
    /\ signals' = << >>
    /\ UNCHANGED << runs, platform, javaVars, versionData, indexCached, fs, totaldlsize, progress, pc,
                    pdq, sap, pcVE, extracting, classpath, rulesOut, nComplete,
                    nError, done >>

(***************************************************************************)
(* The download engine: processDlQueues and startAsyncProcess.             *)
(***************************************************************************)
DefaultIdentifiers == << "assets", "libraries", "files", "forge" >>

\* The identifier lists processDlQueues is called with.
IdentifierLists == { DefaultIdentifiers, << "java" >>, << "assets", "libraries" >> }

\* Variant: the sizes of all five trackers.
SumDlsizeAll(identifiers, sz) ==
    sz["assets"] + sz["libraries"] + sz["files"] + sz["forge"] + sz["java"]

RECURSIVE SumDlsize(_, _)
SumDlsize(identifiers, sz) ==
    IF identifiers = << >> THEN 0
    ELSE sz[identifiers[1]] + SumDlsize(Tail(identifiers), sz)

\* The loop of processDlQueues after position k: the next identifier whose
\* startAsyncProcess finds a non-empty queue (it returns false, at once, on
\* an empty one); 0 when the loop runs to its end.
NextCat(identifiers, k, q) ==
    LET later == {j \in (k + 1)..Len(identifiers) : q[identifiers[j]] # << >>}
    IN  IF later = {} THEN 0 ELSE CHOOSE j \in later : \A l \in later : j <= l

\* The locals of startAsyncProcess(identifier) at its first axios.get.
NewSap(identifier, q, cbs) ==
    [identifier |-> identifier, dlQueue |-> q[identifier], callback |-> cbs[identifier],
     idx |-> 1, contentLength |-> Num(0), doHashCheck |-> FALSE, rem |-> 0,
     body |-> "none", truncated |-> FALSE]

\* The 'complete'/'download' signals one emission gives rise to: the once
\* listener of processDlQueues resolves its promise, and validateEverything,
\* which awaits it, emits the signal again.
Completes(pending, caller) ==
    IF pending /\ caller = "validateEverything"
    THEN << CompleteDownload, CompleteDownload >>
    ELSE << CompleteDownload >>

\* processDlQueues(identifiers) on the trackers (q, sz, cbs), after the
\* signals pre of the same step: the totals are reset, the loop runs to the
\* first axios.get, or to its end when every queue is empty.
processDlQueues(identifiers, caller, q, sz, cbs, pre) ==
    LET j == NextCat(identifiers, 0, q)
    IN  /\ dlqueue' = q
        /\ dlsize' = sz
        /\ callback' = cbs
        /\ totaldlsize' = Num(SumDlsize(identifiers, sz))
        /\ progress' = 0
        /\ done' = NoOutcome
        /\ nError' = 0
        /\ IF j = 0
           THEN /\ pc' = "idle"
                /\ pdq' = [identifiers |-> identifiers, k |-> Len(identifiers),
                           shouldFire |-> TRUE, pending |-> FALSE, caller |-> caller]
                /\ sap' = NoSap
                /\ signals' = pre \o Completes(TRUE, caller)
                /\ nComplete' = Len(Completes(TRUE, caller))
                /\ pcVE' = IF caller = "validateEverything" THEN "done" ELSE pcVE
           ELSE /\ pc' = "fetch"
                /\ pdq' = [identifiers |-> identifiers, k |-> j, shouldFire |-> TRUE,
                           pending |-> TRUE, caller |-> caller]
                /\ sap' = NewSap(identifiers[j], q, cbs)
                /\ signals' = pre
                /\ nComplete' = 0
                /\ pcVE' = IF caller = "validateEverything" THEN "download" ELSE pcVE

ProcessDlQueues ==
    /\ TaskFree
    /\ tasks' = tasks + 1
    /\ runs < MaxRuns
    /\ runs' = runs + 1
    /\ \E identifiers \in IdentifierLists :
           processDlQueues(identifiers, "task", dlqueue, dlsize, callback, << >>)
    /\ UNCHANGED << platform, javaVars, versionData, indexCached, fs, extracting, classpath,
                    rulesOut >>

\* The artifact startAsyncProcess is working on.
CurAsset == sap.dlQueue[sap.idx]

\* The limit an identifier list gives for a category: 10, 10, 10 and 5 in
\* the default list, 1 in the lists a task passes ({id: 'java', limit: 1}).
LimitOf(identifiers, c) ==
    IF identifiers = DefaultIdentifiers
    THEN IF c = "forge" THEN 5 ELSE 10
    ELSE 1

\* Variant: every artifact of the queue is requested at once.
InFlightWholeQueue == IF pc \in {"fetch", "stream"} THEN Len(sap.dlQueue) ELSE 0

\* The number of artifacts requested and not yet settled: the for loop
\* awaits the promise of each artifact before it starts the next.
InFlight == IF pc \in {"fetch", "stream"} THEN 1 ELSE 0

\* Variant: a rejected request is issued once more.
FetchFailsRetry ==
    /\ pc = "fetch"
    /\ nError = 0
    /\ pc' = "fetch"
    /\ signals' = << Sig("error", "download") >>
    /\ nError' = nError + 1
    /\ done' = Outcome(CurAsset, "failed", 0, "none")
    /\ UNCHANGED << tasks, runs, platform, javaVars, versionData, indexCached, fs, dlqueue, dlsize, callback,
                    totaldlsize, progress, pdq, sap, pcVE, extracting, classpath,
                    rulesOut, nComplete >>

\* axios.get rejects (network error, timeout, status outside 2xx): the catch
\* handler emits 'error' and leaves req undefined, req.data throws, the
\* promise of the artifact is rejected and the await in the for loop throws:
\* startAsyncProcess and the executor of processDlQueues end there.
FetchFails ==
    /\ pc = "fetch"
    /\ pc' = "rejected"
    /\ signals' = << Sig("error", "download") >>
    /\ nError' = nError + 1
    /\ done' = Outcome(CurAsset, "failed", 0, "none")
    /\ UNCHANGED << tasks, runs, platform, javaVars, versionData, indexCached, fs, dlqueue, dlsize, callback,
                    totaldlsize, progress, pdq, sap, pcVE, extracting, classpath,
                    rulesOut, nComplete >>

\* A 2xx status other than 200 (no body): the else branch reads the
\* undeclared resp, which throws before the progress is touched.
FetchNot200 ==
    /\ pc = "fetch"
    /\ pc' = "rejected"
    /\ signals' = << >>
    /\ done' = Outcome(CurAsset, "not200", 0, "none")
    /\ UNCHANGED << tasks, runs, platform, javaVars, versionData, indexCached, fs, dlqueue, dlsize, callback,
                    totaldlsize, progress, pdq, sap, pcVE, extracting, classpath,
                    rulesOut, nComplete, nError >>

\* The responses with status 200 a server may give for an artifact: the
\* content-length header equal to the expected size, different from it, or
\* absent (parseInt gives NaN); the body complete (either payload) or cut
\* short of the announced length.
Responses(a) ==
    LET lengths == {Num(a.size), Num(a.size + 1), NaN}
    IN  { [contentLength |-> cl, len |-> IF cl.nan THEN a.size ELSE cl.val,
           body |-> b, truncated |-> FALSE] : cl \in lengths, b \in {"c1", "c2"} }
        \cup
        { [contentLength |-> cl, len |-> cl.val - 1, body |-> "partial", truncated |-> TRUE] :
              cl \in {l \in {Num(a.size)} : l.val > 0} }

\* this.totaldlsize after the content-length adjustment.
AdjustTotal(total, a, contentLength) ==
    IF NumNE(contentLength, Num(a.size))
    THEN NumAdd(NumSub(total, Num(a.size)), contentLength)
    ELSE total

\* Status 200: the data listener is registered, the total is adjusted when
\* the content length differs, the write stream is opened and piped.
FetchOk ==
    /\ pc = "fetch"
    /\ \E r \in Responses(CurAsset) :
        /\ sap' = [sap EXCEPT !.contentLength = r.contentLength,
                              !.doHashCheck = NumNE(r.contentLength, Num(CurAsset.size)),
                              !.rem = r.len, !.body = r.body, !.truncated = r.truncated]
        /\ totaldlsize' = AdjustTotal(totaldlsize, CurAsset, r.contentLength)
    /\ fs' = [fs EXCEPT ![CurAsset.to] = "partial"]
    /\ pc' = "stream"
    /\ signals' = << >>
    /\ UNCHANGED << tasks, runs, platform, javaVars, versionData, indexCached, dlqueue, dlsize, callback,
                    progress, pdq, pcVE, extracting, classpath, rulesOut, nComplete,
                    nError, done >>

\* self.progress += chunk.length
ChunkProgressLost(p, n) == p - n

ChunkProgress(p, n) == p + n

\* The 'data' listener: one chunk of n bytes.
DataChunk ==
    /\ pc = "stream"
    /\ sap.rem > 0
    /\ \E n \in 1..sap.rem :
        /\ progress' = ChunkProgress(progress, n)
        /\ sap' = [sap EXCEPT !.rem = sap.rem - n]
        /\ signals' = << Progress("download", Num(ChunkProgress(progress, n)), totaldlsize) >>
    /\ UNCHANGED << tasks, runs, platform, javaVars, versionData, indexCached, fs, dlqueue, dlsize, callback,
                    totaldlsize, pc, pdq, pcVE, extracting, classpath, rulesOut,
                    nComplete, nError, done >>

\* asset.type != null ? 'md5' : 'sha1': no Asset carries a type.
HashAlgo(a) == "sha1"

\* The hash check of the 'close' listener: nothing without a size
\* discrepancy; else the "hashes match" log or the "may be corrupted" error.
HashCheckLogTrustSize(f, a, doHashCheck) == IF doHashCheck THEN "corrupt" ELSE "none"

HashCheckLog(f, a, doHashCheck) ==
    IF doHashCheck
    THEN IF _validateLocal(f, a.to, HashAlgo(a), a.hash) THEN "match" ELSE "corrupt"
    ELSE "none"

\* How often the 'close' listener applies the tracker's callback.
CallbackCallsNever(hasCallback) == 0

CallbackCalls(hasCallback) == IF hasCallback THEN 1 ELSE 0

\* The 'close' listener of the write stream and what its resolve() leads to:
\* the callback, the hash check, then the next artifact of the queue; after
\* the last one the tracker is reset, 'complete' is emitted when the progress
\* has reached the total, and processDlQueues goes on to the next non-empty
\* queue or ends.
WriteClose ==
    /\ pc = "stream"
    /\ sap.rem = 0
    /\ ~sap.truncated
    /\ LET a == CurAsset
           f1 == [fs EXCEPT ![a.to] = sap.body]
           calls == CallbackCalls(sap.callback)
       IN  /\ fs' = f1
           /\ extracting' = IF calls > 0 THEN extracting \cup {a.to} ELSE extracting
           /\ done' = Outcome(a, "written", calls, HashCheckLog(f1, a, sap.doHashCheck))
    /\ IF sap.idx < Len(sap.dlQueue)
       THEN /\ sap' = [sap EXCEPT !.idx = sap.idx + 1, !.contentLength = Num(0),
                                  !.doHashCheck = FALSE, !.body = "none"]
            /\ pc' = "fetch"
            /\ signals' = << >>
            /\ UNCHANGED << dlqueue, dlsize, callback, pdq, pcVE, nComplete >>
       ELSE LET q1 == [dlqueue EXCEPT ![sap.identifier] = << >>]
                sz1 == [dlsize EXCEPT ![sap.identifier] = 0]
                cb1 == [callback EXCEPT ![sap.identifier] = FALSE]
                fire == NumGE(Num(progress), totaldlsize)
                emitted == IF fire THEN Completes(pdq.pending, pdq.caller) ELSE << >>
                j == NextCat(pdq.identifiers, pdq.k, q1)
            IN  /\ dlqueue' = q1
                /\ dlsize' = sz1
                /\ callback' = cb1
                /\ signals' = emitted
                /\ nComplete' = nComplete + Len(emitted)
                /\ pcVE' = IF fire /\ pdq.pending /\ pdq.caller = "validateEverything"
                           THEN "done" ELSE pcVE
                /\ pdq' = [pdq EXCEPT !.k = IF j = 0 THEN Len(pdq.identifiers) ELSE j,
                                      !.shouldFire = FALSE,
                                      !.pending = pdq.pending /\ ~fire]
                /\ IF j = 0
                   THEN pc' = "idle" /\ sap' = NoSap
                   ELSE pc' = "fetch" /\ sap' = NewSap(pdq.identifiers[j], q1, cb1)
    /\ UNCHANGED << tasks, runs, platform, javaVars, versionData, indexCached, totaldlsize, progress,
                    classpath, rulesOut, nError >>

\* The extraction the java callback started comes to its end (with or
\* without an error): the archive is unlinked when the extraction and the
\* unlink worked, and 'complete'/'java' is emitted, which also fires the once
\* listener of a processDlQueues call that is still waiting.
ExtractFinish ==
    /\ extracting # {}
    /\ \E to \in extracting :
        /\ extracting' = extracting \ {to}
        /\ \/ fs' = [fs EXCEPT ![to] = NoFile]
           \/ fs' = fs
    /\ LET again == IF pdq.pending /\ pdq.caller = "validateEverything"
                    THEN << CompleteDownload >> ELSE << >>
       IN  /\ signals' = << Sig("complete", "java") >> \o again
           /\ nComplete' = nComplete + Len(again)
           /\ pcVE' = IF again # << >> THEN "done" ELSE pcVE
    /\ pdq' = [pdq EXCEPT !.pending = FALSE]
    /\ UNCHANGED << tasks, runs, platform, javaVars, versionData, indexCached, dlqueue, dlsize, callback,
                    totaldlsize, progress, pc, sap, classpath, rulesOut, nError, done >>

(***************************************************************************)
(* validateEverything.                                                     *)
(***************************************************************************)
\* The call: loadVersionData('1.8.9', true) requests the manifest.
VE_Start ==
    /\ TaskFree
    /\ tasks' = tasks + 1
    /\ runs < MaxRuns
    /\ runs' = runs + 1
    /\ Len(dlqueue["files"]) + 2 <= MaxFilesQueue
    /\ pcVE' = "manifest"
    /\ signals' = << >>
    /\ nComplete' = 0
    /\ nError' = 0
    /\ UNCHANGED << platform, javaVars, versionData, indexCached, fs, dlqueue, dlsize, callback,
                    totaldlsize, progress, pc, pdq, sap, extracting, classpath,
                    rulesOut, done >>

\* With the manifest and the asset index at hand: validateAssets,
\* validateLibraries, validateMiscellaneous and processDlQueues, each phase
\* signal after its phase.  A throwing validateLibraries ends the call in
\* its catch block.
VE_Chain(pre) ==
    LET ta == _assetChainValidateAssets(versionData.objects, fs, << >>, 0)
        sigA == pre \o assetProgress(Len(versionData.objects)) \o << Sig("validate", "assets") >>
    IN  IF validateAssetsThrows(versionData.objects)
        THEN /\ pcVE' = "hung"
             /\ signals' = pre \o SubSeq(assetProgress(Len(versionData.objects)), 1,
                                          AssetsVisited(versionData.objects))
             /\ UNCHANGED << dlqueue, dlsize, callback, totaldlsize, progress, pc, pdq, sap,
                             nComplete, nError, done >>
        ELSE
        IF validateLibrariesThrows(versionData, platform)
        THEN /\ dlqueue' = [dlqueue EXCEPT !["assets"] = ta.dlqueue]
             /\ dlsize' = [dlsize EXCEPT !["assets"] = ta.dlsize]
             /\ callback' = [callback EXCEPT !["assets"] = FALSE]
             /\ pcVE' = "failed"
             /\ signals' = sigA
             /\ UNCHANGED << totaldlsize, progress, pc, pdq, sap, nComplete, nError, done >>
        ELSE LET tl == validateLibraries(versionData.libraries, fs, platform, << >>, 0)
                 tc == FilesAfterClient(dlqueue["files"], dlsize["files"], fs, versionData, FALSE)
                 tf == FilesAfterLogConfig(tc.dlqueue, tc.dlsize, fs, versionData)
             IN  processDlQueues(
                     DefaultIdentifiers, "validateEverything",
                     [dlqueue EXCEPT !["assets"] = ta.dlqueue, !["libraries"] = tl.dlqueue,
                                     !["files"] = tf.dlqueue],
                     [dlsize EXCEPT !["assets"] = ta.dlsize, !["libraries"] = tl.dlsize,
                                    !["files"] = tf.dlsize],
                     [callback EXCEPT !["assets"] = FALSE, !["libraries"] = FALSE],
                     sigA \o << Sig("validate", "libraries"), Sig("validate", "files") >>)

\* The manifest has been written and parsed.
VE_Manifest ==
    /\ pcVE = "manifest"
    /\ IF indexCached
       THEN VE_Chain(<< Sig("validate", "version") >>) /\ UNCHANGED indexCached
       ELSE /\ pcVE' = "index"
            /\ signals' = << Sig("validate", "version") >>
            /\ UNCHANGED << indexCached, dlqueue, dlsize, callback, totaldlsize, progress,
                            pc, pdq, sap, nComplete, nError, done >>
    /\ UNCHANGED << tasks, runs, platform, javaVars, versionData, fs, extracting, classpath, rulesOut >>

\* The asset index has been fetched and written.
VE_Index ==
    /\ pcVE = "index"
    /\ indexCached' = TRUE
    /\ VE_Chain(<< >>)
    /\ UNCHANGED << tasks, runs, platform, javaVars, versionData, fs, extracting, classpath, rulesOut >>

\* The request of the manifest or of the asset index fails: nothing handles
\* the rejection and the promise validateEverything awaits never settles.
\* (The same for a manifest JSON.parse rejects: the exception is thrown in
\* the 'finish' listener, outside the executor of the promise.)
VE_RequestFails ==
    /\ pcVE \in {"manifest", "index"}
    /\ pcVE' = "hung"
    /\ signals' = << >>
    /\ UNCHANGED << tasks, runs, platform, javaVars, versionData, indexCached, fs, dlqueue, dlsize, callback,
                    totaldlsize, progress, pc, pdq, sap, extracting, classpath,
                    rulesOut, nComplete, nError, done >>

(***************************************************************************)
(* The launch composer's classpath.                                        *)
(***************************************************************************)
\* lib.name.substring(0, lib.name.lastIndexOf(':')) on the names of the universe.
versionIndependentId(name) ==
    CASE name = "com.a:foo:1"     -> "com.a:foo"
      [] name = "com.a:foo:2"     -> "com.a:foo"
      [] name = "org.l:natives:2" -> "org.l:natives"
      [] name = "com.b:bar:3"     -> "com.b:bar"
      [] name = "net.x:lib:9"     -> "net.x:lib"
      [] OTHER                    -> name

\* libs[key] = to on an object kept as its entries in insertion order.
SetKey(libs, key, to) ==
    IF \E j \in DOMAIN libs : libs[j].key = key
    THEN [j \in DOMAIN libs |-> IF libs[j].key = key THEN [key |-> key, to |-> to] ELSE libs[j]]
    ELSE Append(libs, [key |-> key, to |-> to])

\* _resolveMojangLibraries: the loop over the descriptors from the object
\* libs built so far.  A native library is extracted and adds no entry.
RECURSIVE _resolveMojangLibraries(_, _, _)
_resolveMojangLibraries(libArr, opSys, libs) ==
    IF libArr = << >> THEN libs
    ELSE LET lib == libArr[1]
         IN  IF LibIncluded(lib, opSys)
             THEN IF IsNull(lib.natives)
                  THEN _resolveMojangLibraries(
                           Tail(libArr), opSys,
                           SetKey(libs, versionIndependentId(lib.name),
                                  LibraryPath(Val(lib.artifact).path)))
                  ELSE _resolveMojangLibraries(Tail(libArr), opSys, libs)
             ELSE _resolveMojangLibraries(Tail(libArr), opSys, libs)

\* classpathArg: the version jar, then Object.values of the resolved
\* libraries.  (Every path of the universe ends at its '.jar', so
\* _processClassPathList leaves the list as it is.)
classpathArg(vd, opSys) ==
    LET libs == _resolveMojangLibraries(vd.libraries, opSys, << >>)
    IN  << ClientPath(vd.id) >> \o [j \in DOMAIN libs |-> libs[j].to]

\* ProcessBuilder.build() resolving its classpath; the call throws where an
\* included library has no artifact to resolve.
ClasspathArg ==
    /\ classpath' = IF validateLibrariesThrows(versionData, platform)
                    THEN [threw |-> TRUE, cpArgs |-> << >>]
                    ELSE [threw |-> FALSE, cpArgs |-> classpathArg(versionData, platform)]
    /\ UNCHANGED << tasks, runs, platform, javaVars, versionData, indexCached, fs, dlqueue, dlsize, callback,
                    totaldlsize, progress, pc, pdq, sap, pcVE, extracting, rulesOut,
                    signals, nComplete, nError, done >>

\* Library.validateRules applied to one descriptor of the manifest.
ValidateRules ==
    /\ \E j \in DOMAIN versionData.libraries :
           rulesOut' = [lib |-> j,
                        result |-> validateRules(versionData.libraries[j].rules,
                                                 versionData.libraries[j].natives, platform)]
    /\ UNCHANGED << tasks, runs, platform, javaVars, versionData, indexCached, fs, dlqueue, dlsize, callback,
                    totaldlsize, progress, pc, pdq, sap, pcVE, extracting, classpath,
                    signals, nComplete, nError, done >>

(***************************************************************************)
(* Specifications.                                                         *)
(***************************************************************************)
Platforms == {"darwin", "linux", "win32"}

\* The content whose sha1 is the given hash.
ContentFor(hash) ==
    IF toLowerCase(hash) = _calculateHash("c1", "sha1") THEN "c1" ELSE "c2"

\* The hash the manifest expects at each of its paths.
ExpectedAt(vd, p) ==
    IF \E j \in DOMAIN vd.objects : AssetPath(vd.objects[j].hash) = p
    THEN (CHOOSE o \in {vd.objects[j] : j \in DOMAIN vd.objects} : AssetPath(o.hash) = p).hash
    ELSE IF p = ClientPath(vd.id) THEN vd.client.sha1
    ELSE IF p = LogConfigPath(vd.logfile.id) THEN vd.logfile.sha1
    ELSE IF \E j \in DOMAIN vd.libraries : LibraryPath(Val(vd.libraries[j].artifact).path) = p
    THEN "aa11" ELSE "bb22"

\* The local file systems a run starts from: nothing installed, everything
\* installed and intact, or every file holding one and the same payload.
InitialFS(vd) ==
    { [p \in PathsOf(vd) |-> NoFile],
      [p \in PathsOf(vd) |-> ContentFor(ExpectedAt(vd, p))],
      [p \in PathsOf(vd) |-> "c1"],
      [p \in PathsOf(vd) |-> "c2"] }

(***************************************************************************)
(* JavaGuard: strings and numbers.                                         *)
(*                                                                         *)
(* A string is the tuple of its tokens: a run of decimal digits, one       *)
(* separator character, or a run of other characters.                      *)
(***************************************************************************)
\* undefined in the place of a number (a missing property), and in the
\* place of a string (a missing array element).
Undefined == [undefined |-> TRUE]
UndefinedString == << "undefined" >>

\* x > y on values that are numbers or undefined: false with NaN, undefined.
NumGT(x, y) ==
    /\ x # Undefined
    /\ y # Undefined
    /\ ~x.nan
    /\ ~y.nan
    /\ x.val > y.val

\* x < y, likewise.
NumLT(x, y) == NumGT(y, x)

\* x === y on values that are numbers or undefined.
StrictEq(x, y) ==
    IF x = Undefined \/ y = Undefined THEN x = y
    ELSE (~x.nan) /\ (~y.nan) /\ x.val = y.val

\* The runs of digits of the universe and their values.
DigitValue(tok) ==
    CASE tok = "0" -> 0    [] tok = "1" -> 1    [] tok = "2" -> 2
      [] tok = "7" -> 7    [] tok = "8" -> 8    [] tok = "10" -> 10
      [] tok = "13" -> 13  [] tok = "15" -> 15  [] tok = "16" -> 16
      [] tok = "32" -> 32  [] tok = "52" -> 52  [] tok = "60" -> 60
      [] tok = "64" -> 64  [] tok = "80" -> 80  [] tok = "152" -> 152
      [] OTHER -> -1

\* String.prototype.trim, one end after the other.
RECURSIVE trimStart(_)
trimStart(s) ==
    IF s # << >> /\ s[1] = " " THEN trimStart(Tail(s)) ELSE s

RECURSIVE trimEnd(_)
trimEnd(s) ==
    IF s # << >> /\ s[Len(s)] = " " THEN trimEnd(SubSeq(s, 1, Len(s) - 1)) ELSE s

trim(s) == trimEnd(trimStart(s))

\* parseInt(s): leading white space is skipped, the digits that follow are
\* the value; NaN when no digit follows, and for undefined.
parseInt(s) ==
    IF s = UndefinedString THEN NaN
    ELSE LET t == trimStart(s)
         IN  IF t # << >> /\ DigitValue(t[1]) >= 0 THEN Num(DigitValue(t[1])) ELSE NaN

\* s.split(sep) for a one-character separator.
RECURSIVE split(_, _)
split(s, sep) ==
    IF \A i \in DOMAIN s : s[i] # sep THEN << s >>
    ELSE LET i == CHOOSE k \in DOMAIN s : s[k] = sep /\ \A l \in 1..(k - 1) : s[l] # sep
         IN  << SubSeq(s, 1, i - 1) >> \o split(SubSeq(s, i + 1, Len(s)), sep)

\* arr[i] of a JavaScript array, indices from 0.
At(arr, i) == IF i + 1 \in DOMAIN arr THEN arr[i + 1] ELSE UndefinedString

\* s.indexOf(word) > -1 for a word that is one token of the universe.
includes(s, word) == \E i \in DOMAIN s : s[i] = word

\* s.lastIndexOf(word + ' ') > -1, likewise.
includesThenSpace(s, word) ==
    \E i \in DOMAIN s : s[i] = word /\ i + 1 \in DOMAIN s /\ s[i + 1] = " "

(***************************************************************************)
(* JavaGuard: the runtime version and the JVM properties.                  *)
(***************************************************************************)
\* A call that either returns a value or throws.
Returned(v) == [threw |-> FALSE, value |-> v]
Threw == [threw |-> TRUE]

\* s.substring(1) of a string whose first token is one character.
substring1(s) == IF s = << >> THEN s ELSE Tail(s)

\* JavaGuard._parseJavaRuntimeVersion_8: 1.{major}.0_{update}-b{build}.
\* pts[1].substring(1) throws when the string has no '-'.
_parseJavaRuntimeVersion_8(verString) ==
    LET pts == split(verString, "-")
    IN  IF At(pts, 1) = UndefinedString THEN Threw
        ELSE LET pts2 == split(pts[1], "_")
             IN  Returned([build  |-> parseInt(substring1(pts[2])),
                           update |-> parseInt(At(pts2, 1)),
                           major  |-> parseInt(At(split(pts2[1], "."), 1))])

\* JavaGuard._parseJavaRuntimeVersion_9: {major}.{minor}.{revision}+{build}.
_parseJavaRuntimeVersion_9(verString) ==
    LET pts == split(verString, "+")
        pts2 == split(pts[1], ".")
    IN  Returned([build    |-> parseInt(At(pts, 1)),
                  major    |-> parseInt(At(pts2, 0)),
                  minor    |-> parseInt(At(pts2, 1)),
                  revision |-> parseInt(At(pts2, 2))])

\* JavaGuard.parseJavaRuntimeVersion: major == 1 compares the text before
\* the first '.' with the number 1.
parseJavaRuntimeVersion(verString) ==
    IF split(verString, ".")[1] = << "1" >>
    THEN _parseJavaRuntimeVersion_8(verString)
    ELSE _parseJavaRuntimeVersion_9(verString)

\* verOb.update of a version object that may lack the property.
Field(o, f) == IF f \in DOMAIN o THEN o[f] ELSE Undefined

\* The meta object of a JVM.  arch and vendor are undefined, version is
\* None, until the loop sets them.
Meta(valid, arch, version, vendor) ==
    [valid |-> valid, arch |-> arch, version |-> version, vendor |-> vendor]
NoMeta == Meta(FALSE, Undefined, None, UndefinedString)
\* The literal {valid: false}.
Invalid == NoMeta

\* The version check of _validateJVMProperties.
VersionAccepted(verOb) ==
    StrictEq(verOb.major, Num(8)) /\ NumGT(Field(verOb, "update"), Num(52))


\* The for-loop of _validateJVMProperties from line i on, with the
\* checksum and the meta object gathered so far.  The value is the meta
\* object with its valid flag, or Threw when a line has no '='.
RECURSIVE PropsLoop(_, _, _, _)
PropsLoop(props, i, checksum, meta) ==
    IF i > Len(props) \/ checksum = 2
    THEN Returned([meta EXCEPT !.valid = (checksum = 2)])
    ELSE LET line == props[i]
             value == At(split(line, "="), 1)
         IN  IF includes(line, "sun.arch.data.model")
             THEN IF value = UndefinedString THEN Threw
                  ELSE LET arch == parseInt(trim(value))
                       IN  IF StrictEq(arch, Num(64))
                           THEN PropsLoop(props, i + 1, checksum + 1,
                                          [meta EXCEPT !.arch = arch])
                           ELSE PropsLoop(props, i + 1, checksum, meta)
             ELSE IF includes(line, "java.runtime.version")
             THEN IF value = UndefinedString THEN Threw
                  ELSE LET verOb == parseJavaRuntimeVersion(trim(value))
                       IN  IF verOb.threw THEN Threw
                           ELSE IF VersionAccepted(verOb.value)
                           THEN PropsLoop(props, i + 1, checksum + 1,
                                          [meta EXCEPT !.version = Some(verOb.value)])
                           ELSE PropsLoop(props, i + 1, checksum, meta)
             ELSE IF includesThenSpace(line, "java.vendor")
             THEN IF value = UndefinedString THEN Threw
                  ELSE PropsLoop(props, i + 1, checksum,
                                 [meta EXCEPT !.vendor = trim(value)])
             ELSE PropsLoop(props, i + 1, checksum, meta)

\* JavaGuard._validateJVMProperties(stderr); props is stderr.split('\n').
_validateJVMProperties(props) == PropsLoop(props, 1, 0, NoMeta)

\* The property lines of the universe.
Line(key, value) == << " ", key, " ", "=", " " >> \o value

LineArch64 == Line("sun.arch.data.model", << "64" >>)
LineArch32 == Line("sun.arch.data.model", << "32" >>)
LineVersion152 ==
    Line("java.runtime.version", << "1", ".", "8", ".", "0", "_", "152", "-", "b", "16" >>)
LineVersion52 ==
    Line("java.runtime.version", << "1", ".", "8", ".", "0", "_", "52", "-", "b", "10" >>)
LineVersion7 ==
    Line("java.runtime.version", << "1", ".", "7", ".", "0", "_", "80", "-", "b", "15" >>)
LineVersion10 ==
    Line("java.runtime.version", << "10", ".", "0", ".", "2", "+", "13" >>)
LineVersionNoBuild ==
    Line("java.runtime.version", << "1", ".", "8", ".", "0", "_", "60" >>)
LineVendor == Line("java.vendor", << "Oracle Corporation" >>)
LineHeading == << "Property settings:" >>
LineNoValue == << " ", "sun.arch.data.model" >>

PropertyLines ==
    { LineArch64, LineArch32, LineVersion152, LineVersion52, LineVersion7,
      LineVersion10, LineVersionNoBuild, LineVendor, LineHeading, LineNoValue }

(***************************************************************************)
(* JavaGuard: executable paths and the ranking of valid candidates.        *)
(***************************************************************************)
\* JavaGuard.javaExecFromRoot(rootDir) on platform p.
javaExecFromRoot(rootDir, p) ==
    IF p = "win32" THEN rootDir \o << "bin", "javaw.exe" >>
    ELSE IF p = "darwin" THEN rootDir \o << "Contents", "Home", "bin", "java" >>
    ELSE IF p = "linux" THEN rootDir \o << "bin", "java" >>
    ELSE rootDir

\* pth.endsWith(path.join(a, b)): the last two components are a and b.
endsWith(pth, a, b) ==
    /\ Len(pth) >= 2
    /\ pth[Len(pth) - 1] = a
    /\ pth[Len(pth)] = b

\* JavaGuard.isJavaExecPath(pth) on platform p.
isJavaExecPath(pth, p) ==
    IF p = "win32" THEN endsWith(pth, "bin", "javaw.exe")
    ELSE IF p = "darwin" THEN endsWith(pth, "bin", "java")
    ELSE IF p = "linux" THEN endsWith(pth, "bin", "java")
    ELSE FALSE

\* The directory names of the universe that contain 'jdk' in lower case.
JdkNames == {"jdk1.8.0_152", "JDK8", "java-8-openjdk-amd64", "jdk1.8.0_152.jdk"}

\* execPath.toLowerCase().indexOf('jdk') > -1
isJdkPath(execPath) == \E i \in DOMAIN execPath : execPath[i] \in JdkNames

\* The comparator on two candidates of one and the same version: priority
\* to the JRE.
equalVersionOrder(a, b) ==
    IF isJdkPath(a.execPath)
    THEN IF isJdkPath(b.execPath) THEN 0 ELSE 1
    ELSE -1

\* x > y ? -1 : 1
descending(x, y) == IF NumGT(x, y) THEN -1 ELSE 1

\* The comparator that orders by the build alone.
compareVersionsByBuild(av, bv, a, b) ==
    IF StrictEq(av.build, bv.build) THEN equalVersionOrder(a, b)
    ELSE descending(av.build, bv.build)

\* The comparator of _sortValidJavaArray on candidates that have a version.
compareVersions(av, bv, a, b) ==
    IF StrictEq(av.major, bv.major)
    THEN IF NumLT(av.major, Num(9))
         THEN IF StrictEq(Field(av, "update"), Field(bv, "update"))
              THEN IF StrictEq(av.build, bv.build)
                   THEN equalVersionOrder(a, b)
                   ELSE descending(av.build, bv.build)
              ELSE descending(Field(av, "update"), Field(bv, "update"))
         ELSE IF StrictEq(Field(av, "minor"), Field(bv, "minor"))
              THEN IF StrictEq(Field(av, "revision"), Field(bv, "revision"))
                   THEN equalVersionOrder(a, b)
                   ELSE descending(Field(av, "revision"), Field(bv, "revision"))
              ELSE descending(Field(av, "minor"), Field(bv, "minor"))
    ELSE descending(av.major, bv.major)

\* The comparator of _sortValidJavaArray: a.version.major throws on a meta
\* object that has no version.
compare(a, b) ==
    IF IsNull(a.version) \/ IsNull(b.version) THEN Threw
    ELSE Returned(compareVersions(Val(a.version), Val(b.version), a, b))

\* Array.prototype.sort on a short array, as V8 did it before version 7.0:
\* insertion sort.  InsertDown is the inner loop for one element.
RECURSIVE InsertDown(_, _, _)
InsertDown(a, j, element) ==
    IF j = 0 THEN Returned([a EXCEPT ![1] = element])
    ELSE LET order == compare(a[j], element)
         IN  IF order.threw THEN Threw
             ELSE IF order.value > 0
             THEN InsertDown([a EXCEPT ![j + 1] = a[j]], j - 1, element)
             ELSE Returned([a EXCEPT ![j + 1] = element])

RECURSIVE InsertionSort(_, _)
InsertionSort(a, i) ==
    IF i > Len(a) THEN Returned(a)
    ELSE LET r == InsertDown(a, i - 1, a[i])
         IN  IF r.threw THEN Threw ELSE InsertionSort(r.value, i + 1)

\* Array.prototype.sort on a short array, as V8 does it from version 7.0
\* on: the leading run is found (and reversed when it descends), every
\* later element is placed by binary insertion.  RunLength is the length of
\* the run that begins a[1], a[2] given that a[1..n] belongs to it.
RECURSIVE RunLength(_, _, _)
RunLength(a, n, isDescending) ==
    IF n = Len(a) THEN Returned(n)
    ELSE LET order == compare(a[n + 1], a[n])
         IN  IF order.threw THEN Threw
             ELSE IF isDescending /\ order.value >= 0 THEN Returned(n)
             ELSE IF (~isDescending) /\ order.value < 0 THEN Returned(n)
             ELSE RunLength(a, n + 1, isDescending)

Reverse(a) == [i \in DOMAIN a |-> a[Len(a) + 1 - i]]

\* The place left..right in a[1..start-1] narrowed for the pivot a[start];
\* left and right count from 0 as in the implementation.
RECURSIVE BinarySearch(_, _, _, _)
BinarySearch(a, pivot, left, right) ==
    IF left >= right THEN Returned(left)
    ELSE LET mid == left + ((right - left) \div 2)
             order == compare(pivot, a[mid + 1])
         IN  IF order.threw THEN Threw
             ELSE IF order.value < 0 THEN BinarySearch(a, pivot, left, mid)
             ELSE BinarySearch(a, pivot, mid + 1, right)

RECURSIVE BinaryInsertionSort(_, _)
BinaryInsertionSort(a, start) ==
    IF start > Len(a) THEN Returned(a)
    ELSE LET pivot == a[start]
             left == BinarySearch(a, pivot, 0, start - 1)
         IN  IF left.threw THEN Threw
             ELSE BinaryInsertionSort(
                      SubSeq(a, 1, left.value) \o << pivot >>
                          \o SubSeq(a, left.value + 1, start - 1)
                          \o SubSeq(a, start + 1, Len(a)),
                      start + 1)

TimSort(a) ==
    IF Len(a) < 2 THEN Returned(a)
    ELSE LET first == compare(a[2], a[1])
         IN  IF first.threw THEN Threw
             ELSE LET isDescending == first.value < 0
                      run == RunLength(a, 2, isDescending)
                  IN  IF run.threw THEN Threw
                      ELSE BinaryInsertionSort(
                               IF isDescending
                               THEN Reverse(SubSeq(a, 1, run.value))
                                        \o SubSeq(a, run.value + 1, Len(a))
                               ELSE a,
                               run.value + 1)

\* JavaGuard._sortValidJavaArray(validArr): what validArr.sort(comparator)
\* may return or throw.  The order of elements the comparator does not
\* order consistently depends on the engine's sorting algorithm.
_sortValidJavaArray(validArr) == {InsertionSort(validArr, 2), TimSort(validArr)}

\* A candidate: a meta object that passed validation, with its execPath.
Candidate(version, execPath) ==
    [valid |-> TRUE, arch |-> Num(64), version |-> version,
     vendor |-> UndefinedString, execPath |-> execPath]

Version8(update, build) == [build |-> build, update |-> Num(update), major |-> Num(8)]

\* The candidates the ranking is exercised with: updates 50 and 60 of
\* Java 8, builds 0 and 1 and a build that did not parse, under a JRE
\* directory, a second JRE directory and a JDK directory; and a candidate
\* that was accepted on two architecture lines and carries no version.
CandidateVersions ==
    { Some(Version8(50, Num(1))), Some(Version8(60, Num(0))), Some(Version8(60, Num(1))),
      Some(Version8(60, NaN)), None }

CandidatePaths ==
    { << "usr", "lib", "jvm", "jre1.8.0_152", "bin", "java" >>,
      << "opt", "jre8", "bin", "java" >>,
      << "usr", "lib", "jvm", "jdk1.8.0_152", "bin", "java" >> }

Candidates == {Candidate(v, p) : v \in CandidateVersions, p \in CandidatePaths}

(***************************************************************************)
(* JavaGuard: the host and the discovery of a runtime.                     *)
(*                                                                         *)
(* A host h has jvms, which gives for every root directory of the universe *)
(* None (the directory does not exist) or the lines the binary under it    *)
(* prints for -XshowSettings:properties; registry, the JavaHome values of  *)
(* the 1.8 keys; and javaHome, the value of JAVA_HOME or undefined.        *)
(***************************************************************************)
\* path.join(dataDir, 'runtime', 'x64')
RuntimeDir == << "data", "runtime", "x64" >>

\* The root directories a host of platform p may have.
Roots(p) ==
    IF p = "win32"
    THEN { << "C:", "Program Files", "Java", "jre1.8.0_152" >>,
           << "C:", "Program Files", "Java", "jdk1.8.0_152" >>,
           << "C:", "Program Files (x86)", "Java", "jre1.8.0_152" >>,
           RuntimeDir \o << "jre8" >> }
    ELSE IF p = "darwin"
    THEN { << "Library", "Java", "JavaVirtualMachines", "jdk1.8.0_152.jdk" >>,
           << "Library", "Internet Plug-Ins", "JavaAppletPlugin.plugin" >>,
           << "opt", "jre8" >>,
           RuntimeDir \o << "jre8" >> }
    ELSE { << "usr", "lib", "jvm", "jre1.8.0_152" >>,
           << "usr", "lib", "jvm", "java-8-openjdk-amd64" >>,
           << "opt", "jre8" >>,
           RuntimeDir \o << "jre8" >> }

\* What the binaries of the universe print.
LineVersion60 ==
    Line("java.runtime.version", << "1", ".", "8", ".", "0", "_", "60", "-", "b", "16" >>)

Output152 == << LineHeading, LineArch64, LineVersion152 >>
Output60 == << LineVersion60, LineArch64 >>
Output32 == << LineArch32, LineVersion152 >>
OutputNoBuild == << LineArch64, LineVersionNoBuild >>
OutputTwoArch == << LineArch64, LineArch64, LineVersion7 >>
Outputs == {Output152, Output60, Output32, OutputNoBuild, OutputTwoArch}

\* What the binary under root r may print: the runtime the launcher
\* installs itself is the valid one; under Program Files (x86) a 32-bit
\* or a 64-bit runtime is found.
OutputsAt(r) ==
    IF r = RuntimeDir \o << "jre8" >> THEN {Output152}
    ELSE IF \E i \in DOMAIN r : r[i] = "Program Files (x86)" THEN {Output32, Output152}
    ELSE {Output152, Output60, OutputNoBuild, OutputTwoArch}

\* fs.existsSync / fs.pathExists of a root directory or of the binary
\* under a root directory.
dirExists(h, dir) == dir \in DOMAIN h.jvms /\ ~IsNull(h.jvms[dir])
pathExists(h, execPath, p) ==
    \E r \in DOMAIN h.jvms : javaExecFromRoot(r, p) = execPath /\ ~IsNull(h.jvms[r])

\* stderr of '"' + binaryExecPath + '" -XshowSettings:properties'.
stderrOf(h, execPath, p) ==
    Val(h.jvms[CHOOSE r \in DOMAIN h.jvms : javaExecFromRoot(r, p) = execPath])

\* An exec callback without the try/catch.
NoCatch(r) == r

\* The try/catch around _validateJVMProperties in the exec callback.
CatchToInvalid(r) == IF r.threw THEN Returned(Invalid) ELSE r

\* JavaGuard._validateJavaBinary(binaryExecPath) on host h and platform p:
\* ran tells whether the binary was started, outcome is what the promise
\* resolves with (Threw: it never resolves).
_validateJavaBinary(h, binaryExecPath, p) ==
    IF ~isJavaExecPath(binaryExecPath, p)
    THEN [ran |-> FALSE, outcome |-> Returned(Invalid)]
    ELSE IF pathExists(h, binaryExecPath, p)
    THEN [ran |-> TRUE,
          outcome |-> CatchToInvalid(_validateJVMProperties(stderrOf(h, binaryExecPath, p)))]
    ELSE [ran |-> FALSE, outcome |-> Returned(Invalid)]

\* null in the place of a path.
NoPath == << >>

\* JavaGuard._scanJavaHome(): JAVA_HOME when that path exists, else null.
_scanJavaHome(h) ==
    IF h.javaHome # UndefinedString /\ dirExists(h, h.javaHome) THEN h.javaHome ELSE NoPath

\* The orders in which the members of a set may be listed.
Perms(S) ==
    {q \in [1..Cardinality(S) -> S] : \A i, j \in 1..Cardinality(S) : q[i] = q[j] => i = j}

\* pth.indexOf('(x86)') === -1
notX86(pth) == \A i \in DOMAIN pth : pth[i] # "Program Files (x86)"

\* JavaGuard._scanRegistry(): the JavaHome values without '(x86)', in the
\* order the registry callbacks arrive.
_scanRegistry(h) == Perms({r \in h.registry : notX86(r)})

\* JavaGuard._scanFileSystem(scanDir): the directories under scanDir that
\* hold a binary, in the order readdir lists them.
_scanFileSystem(h, scanDir, p) ==
    Perms({r \in DOMAIN h.jvms :
              /\ SubSeq(r, 1, Len(r) - 1) = scanDir
              /\ pathExists(h, javaExecFromRoot(r, p), p)})

\* JavaGuard._scanInternetPlugins()
_scanInternetPlugins(h, p) ==
    LET pth == << "Library", "Internet Plug-Ins", "JavaAppletPlugin.plugin" >>
    IN  IF pathExists(h, javaExecFromRoot(pth, p), p) THEN pth ELSE NoPath

\* new Set([...a, ...b]) and set.add(x), in insertion order.
RECURSIVE Union(_, _)
Union(a, b) ==
    IF b = << >> THEN a
    ELSE Union(IF \E i \in DOMAIN a : a[i] = b[1] THEN a ELSE Append(a, b[1]), Tail(b))

\* JavaGuard._validateJavaRootSet(rootSet) from element i on; it throws
\* when an awaited _validateJavaBinary does.
RECURSIVE _validateJavaRootSet(_, _, _, _)
_validateJavaRootSet(h, rootArr, i, p) ==
    IF i > Len(rootArr) THEN Returned(<< >>)
    ELSE LET execPath == javaExecFromRoot(rootArr[i], p)
             metaOb == _validateJavaBinary(h, execPath, p).outcome
             rest == _validateJavaRootSet(h, rootArr, i + 1, p)
         IN  IF metaOb.threw \/ rest.threw THEN Threw
             ELSE IF metaOb.value.valid
             THEN Returned(<< [valid |-> TRUE, arch |-> metaOb.value.arch,
                              version |-> metaOb.value.version,
                              vendor |-> metaOb.value.vendor,
                              execPath |-> execPath] >> \o rest.value)
             ELSE rest

\* A discovery run: the roots gathered, the candidates that validated, and
\* what the call returned (an executable path or null) or that it threw.
Discovery(rootArr, validArr, result) ==
    [rootArr |-> rootArr, validArr |-> validArr, result |-> result]

\* The steps the three platform functions share: validate the roots, sort
\* the valid candidates, return the first or null.
PickFirst(h, rootArr, p) ==
    LET validArr == _validateJavaRootSet(h, rootArr, 1, p)
    IN  IF validArr.threw THEN {Discovery(rootArr, << >>, Threw)}
        ELSE { Discovery(rootArr, validArr.value,
                         IF s.threw THEN Threw
                         ELSE IF Len(s.value) > 0 THEN Returned(s.value[1].execPath)
                         ELSE Returned(NoPath)) :
                 s \in _sortValidJavaArray(validArr.value) }

\* The Windows candidates when Program Files is scanned whatever the
\* registry holds.
ProgramFilesAlways(h, registry) ==
    {Union(registry, Union(s1, s2)) :
        s1 \in _scanFileSystem(h, << "C:", "Program Files", "Java" >>, "win32"),
        s2 \in _scanFileSystem(h, << "C:", "Program Files", "AdoptOpenJDK" >>, "win32")}

\* pathSet1 of _win32JavaValidate: the registry results, or the scan of
\* Program Files when the registry gave none.
ProgramFilesFallback(h, registry) ==
    IF Len(registry) = 0
    THEN {Union(registry, Union(s1, s2)) :
            s1 \in _scanFileSystem(h, << "C:", "Program Files", "Java" >>, "win32"),
            s2 \in _scanFileSystem(h, << "C:", "Program Files", "AdoptOpenJDK" >>, "win32")}
    ELSE {registry}

\* The roots _win32JavaValidate gathers.
Win32RootSets(h) ==
    LET jHome == _scanJavaHome(h)
    IN  { IF jHome # NoPath /\ notX86(jHome)
          THEN Union(Union(pathSet1, pathSet2), << jHome >>)
          ELSE Union(pathSet1, pathSet2) :
            pathSet1 \in UNION {ProgramFilesFallback(h, reg) : reg \in _scanRegistry(h)},
            pathSet2 \in _scanFileSystem(h, RuntimeDir, "win32") }

\* JavaGuard._win32JavaValidate(dataDir)
_win32JavaValidate(h) == UNION {PickFirst(h, rootArr, "win32") : rootArr \in Win32RootSets(h)}

\* JavaGuard._darwinJavaValidate(dataDir).  String has no method contains:
\* the call throws as soon as JAVA_HOME names a directory that exists.
_darwinJavaValidate(h) ==
    IF _scanJavaHome(h) # NoPath
    THEN {Discovery(<< >>, << >>, Threw)}
    ELSE LET iPPath == _scanInternetPlugins(h, "darwin")
         IN  UNION { PickFirst(h,
                               IF iPPath # NoPath
                               THEN Union(Union(pathSet1, pathSet2), << iPPath >>)
                               ELSE Union(pathSet1, pathSet2),
                               "darwin") :
                       pathSet1 \in _scanFileSystem(h, << "Library", "Java", "JavaVirtualMachines" >>,
                                                    "darwin"),
                       pathSet2 \in _scanFileSystem(h, RuntimeDir, "darwin") }

\* JavaGuard._linuxJavaValidate(dataDir)
_linuxJavaValidate(h) ==
    LET jHome == _scanJavaHome(h)
    IN  UNION { PickFirst(h,
                          IF jHome # NoPath
                          THEN Union(Union(pathSet1, pathSet2), << jHome >>)
                          ELSE Union(pathSet1, pathSet2),
                          "linux") :
                  pathSet1 \in _scanFileSystem(h, << "usr", "lib", "jvm" >>, "linux"),
                  pathSet2 \in _scanFileSystem(h, RuntimeDir, "linux") }

\* JavaGuard.validateJava(dataDir): this['_' + process.platform +
\* 'JavaValidate'] is not a function on any other platform.
validateJava(h, p) ==
    IF p = "win32" THEN _win32JavaValidate(h)
    ELSE IF p = "darwin" THEN _darwinJavaValidate(h)
    ELSE IF p = "linux" THEN _linuxJavaValidate(h)
    ELSE {Discovery(<< >>, << >>, Threw)}

\* The hosts of platform p.
Hosts(p) ==
    { [jvms |-> j, registry |-> reg, javaHome |-> jh] :
        j \in {f \in [Roots(p) -> {None} \cup {Some(o) : o \in Outputs}] :
                  \A r \in Roots(p) : IsNull(f[r]) \/ Val(f[r]) \in OutputsAt(r)},
        reg \in IF p = "win32"
                THEN SUBSET { << "C:", "Program Files", "Java", "jre1.8.0_152" >>,
                              << "C:", "Program Files (x86)", "Java", "jre1.8.0_152" >> }
                ELSE {{}},
        jh \in {UndefinedString} \cup Roots(p) }

(***************************************************************************)
(* The launch attempt of the landing page (landing.js).                    *)
(*                                                                         *)
(* launch.pc is where the attempt stands, jExe the configured Java         *)
(* executable (NoPath: none), sent the tasks sent to the scan worker so    *)
(* far, discovery what validateJava did in the worker (None: not run),     *)
(* build the name of the runtime build _enqueueOpenJDK enqueued (None: no  *)
(* build), prov the stage at which the provisioning failed ("none": at no  *)
(* stage), overlay whether the failure overlay is shown.  enabled is the    *)
(* launch button's, label its text, window the launcher's window, failure  *)
(* the title showLaunchFailure showed last, procs the game processes       *)
(* spawned so far (running or closed, each with its temporary native       *)
(* directory), event what the last listener of a game process, or of the   *)
(* validateEverything reply, did.                                          *)
(***************************************************************************)
NoEvent == [listener |-> "none"]

Ready == [pc |-> "ready", jExe |-> NoPath, sent |-> << >>, discovery |-> None,
          build |-> None, prov |-> "none", overlay |-> FALSE,
          enabled |-> TRUE, label |-> "Launch", window |-> "shown", failure |-> "none",
          procs |-> << >>, event |-> NoEvent]

\* What _latestOpenJDK('8') resolves to: null when the request fails or the
\* service lists no build, else the build, of which the callback reads the
\* name only.  Corretto names a tar.gz on darwin; the name of an AdoptOpenJDK
\* build is the service's.
_latestOpenJDK(p) ==
    IF p = "darwin"
    THEN {None, Some(<< "amazon-corretto-8-x64-macos-jdk", ".tar.gz" >>)}
    ELSE {None, Some(<< "OpenJDK8U-jre_x64", ".zip" >>),
                Some(<< "OpenJDK8U-jre_x64", ".tar.gz" >>)}

\* verData.name.endsWith('zip')
endsWithZip(name) == name[Len(name)] = ".zip"

\* Whether the callback of the java tracker emits 'complete', 'java' after
\* an extraction error: the callback of extractAllToAsync does, the streams
\* of the tar.gz branch only log the error and never reach 'finish'.
ExtractErrorEmitsComplete(name) == endsWithZip(name)

\* What the scan worker sends back as m.result for a validateJava call:
\* the value the call returned; for a call that threw, null or an error
\* text (the relay is not part of landing.js).
WorkerResults(result) ==
    IF result.threw THEN {NoPath, << "error" >>} ELSE {result.value}

\* A handler that provisions whatever the scan found.
NoRuntimeFoundAlways(result) == TRUE

\* m.result == null in the handler of the validateJava reply.
NoRuntimeFound(result) == result = NoPath

\* asyncSystemScan(mcVersion): the worker is forked and sent validateJava.
asyncSystemScan(l) == [l EXCEPT !.pc = "scan", !.sent = << "validateJava" >>]

\* The configured executables a click may find.
ConfiguredExecutables(p) == {NoPath} \cup {javaExecFromRoot(r, p) : r \in Roots(p)}

(***************************************************************************)
(* The game process (landing.js dlAsync, processbuilder.js build).         *)
(*                                                                         *)
(* A chunk of output, after toString().trim(), is the tuple of its lines,  *)
(* a line the tuple of its pieces of text.                                 *)
(***************************************************************************)
CrashMarker == "#@!@# Game crashed! Crash report saved to: #@!@#"
ClientStopping == "[Client thread/INFO]: Stopping!"

LineCrash == << "[12:00:01] [Client thread/INFO]: ", CrashMarker, " /crash/report.txt" >>
LineStopping == << "[12:00:02]", " ", ClientStopping >>
LineStoppingBare == << ClientStopping >>
LineStoppingMore == << "[12:00:02]", " ", ClientStopping, " (again)" >>
LineServerStopping == << "[12:00:02]", " ", "[Server thread/INFO]: Stopping!" >>
LineCrashStopping ==
    << "[12:00:01]", " ", CrashMarker, " /crash/report.txt", " ", ClientStopping >>
LineOther == << "[12:00:00] [Client thread/INFO]: Setting user: Player" >>

\* The chunks a game process writes: nothing but white space, one line,
\* or two lines at once.
Chunks ==
    { << >>, << LineOther >>, << LineCrash >>, << LineStopping >>, << LineCrashStopping >>,
      << LineStoppingBare >>, << LineStoppingMore >>, << LineServerStopping >>,
      << LineOther, LineStopping >>, << LineStopping, LineCrash >> }

\* /#@!@# Game crashed! Crash report saved to: #@!@#/g.test(data)
crashTest(data) ==
    \E i \in DOMAIN data : \E j \in DOMAIN data[i] : data[i][j] = CrashMarker

\* new RegExp("^.+ \\[Client thread/INFO\]: Stopping!$").test(data): without
\* the m flag the whole chunk is to be one line ('.' matches no line
\* break) that ends in the text, with a space and some text before it.
stoppingTest(data) ==
    /\ Len(data) = 1
    /\ Len(data[1]) >= 3
    /\ data[1][Len(data[1])] = ClientStopping
    /\ data[1][Len(data[1]) - 1] = " "

\* What becomes of the crash report: readFileSync(fileLoc) throws, the post
\* to the paste service is rejected, or it is answered.
Reports == {"unreadable", "postRejected", "posted"}

\* showLaunchFailure(title, desc)
showLaunchFailure(l, title) == [l EXCEPT !.failure = title, !.overlay = TRUE]

\* The else-if branch of gameStateChange.
StoppingSeen(l) == [l EXCEPT !.label = "Launch", !.enabled = TRUE, !.window = "shown"]

\* gameStateChange(data) of dlAsync, with what becomes of the crash report.
gameStateChange(l, data, report) ==
    IF crashTest(data)
    THEN LET shown == [l EXCEPT !.label = "Launch", !.window = "shown"]
             told == IF report = "posted"
                     THEN showLaunchFailure(shown, "Game Crash Detected")
                     ELSE shown
         IN  [told EXCEPT !.event = [listener |-> "gameStateChange", data |-> data,
                                     state |-> "crashed"]]
    ELSE IF stoppingTest(data)
    THEN [StoppingSeen(l) EXCEPT
              !.event = [listener |-> "gameStateChange", data |-> data, state |-> "exited"]]
    ELSE [l EXCEPT !.event = [listener |-> "gameStateChange", data |-> data, state |-> "none"]]

\* gameErrorListener(data): whether the chunk of stderr reports the missing
\* main class.
gameErrorListener(l, mainClassMissing) ==
    IF mainClassMissing
    THEN [showLaunchFailure([l EXCEPT !.label = "Launch", !.window = "shown"],
                            "Error During Launch")
              EXCEPT !.event = [listener |-> "gameErrorListener"]]
    ELSE [l EXCEPT !.event = [listener |-> "gameErrorListener"]]

\* A build() that removes the directory once the child is spawned.
tempNativePathAtSpawn == "deleted"

\* The temporary native directory when build() returns: classpathArg has
\* created it, the listener of 'close' has not run.
tempNativePathAtBuild == "present"

\* build(): the child is spawned, with its temporary native directory.
build(procs) == Append(procs, [running |-> TRUE, tempNativePath |-> tempNativePathAtBuild])

\* The 'close' listener of build(): fs.remove(tempNativePath) and what its
\* callback logs.
close(proc, removed) ==
    [running |-> FALSE, tempNativePath |-> IF removed THEN "deleted" ELSE "present"]

\* The processes that have not closed.
Running(procs) == {i \in DOMAIN procs : procs[i].running}

(***************************************************************************)
(* The game arguments (processbuilder.js _resolveMcArgs).                  *)
(*                                                                         *)
(* The template is the tuple of the tokens between its spaces              *)
(* (mcArgs.split(' ')), a token the tuple of its pieces of text.           *)
(***************************************************************************)
Placeholder(name) == << "$", "{", name, "}" >>

\* The template dlAsync passes to the ProcessBuilder.
LandingMcArgs ==
    << << "--username" >>, Placeholder("auth_player_name"),
       << "--version" >>, Placeholder("version_name"),
       << "--gameDir" >>, Placeholder("game_directory"),
       << "--assetsDir" >>, Placeholder("assets_root"),
       << "--assetIndex" >>, Placeholder("assets_index_name"),
       << "--uuid" >>, Placeholder("auth_uuid"),
       << "--accessToken" >>, Placeholder("auth_access_token"),
       << "--userProperties" >>, Placeholder("user_properties"),
       << "--userType" >>, Placeholder("user_type") >>

PlaceholderNames ==
    {"version_name", "game_directory", "assets_root", "assets_index_name", "user_properties",
     "version_type", "auth_player_name", "auth_uuid", "auth_access_token", "user_type",
     "resolution_width"}

\* The tokens of a template: plain text, the placeholders, and placeholders
\* written with a prefix, with two or no opening braces or with two closing
\* braces.
ArgTokens ==
    {<< "--demo" >>, << >>, << "--version=", "$", "{", "version_name", "}" >>,
     << "$", "{", "{", "version_type", "}" >>, << "$", "version_type", "}" >>,
     << "$", "{", "version_type", "}", "}" >>, << "$", "{", "version_type" >>}
        \cup {Placeholder(n) : n \in PlaceholderNames}

McArgsTemplates ==
    {LandingMcArgs} \cup (SeqsUpTo(ArgTokens, MaxArgs) \ {<< >>})

\* mcArgs[i].match(/\${*(.*)}/): None when nothing matches, else the group:
\* what stands between the first '$', with the opening braces after it, and
\* the last '}'.
argDiscovery(tok) ==
    LET closes == {j \in DOMAIN tok : tok[j] = "}"}
        dollars == {i \in DOMAIN tok : tok[i] = "$" /\ \E j \in closes : j > i}
    IN  IF dollars = {} THEN None
        ELSE LET i == CHOOSE d \in dollars : \A e \in dollars : d <= e
                 last == CHOOSE c \in closes : \A e \in closes : e <= c
                 k == CHOOSE n \in (i + 1)..last :
                          /\ tok[n] # "{"
                          /\ \A m \in (i + 1)..(n - 1) : tok[m] = "{"
             IN  Some(SubSeq(tok, k, last - 1))

\* The values of the launch: the instance directory, the common directory's
\* assets, and the assets and type fields of the version data.
ArgValue(identifier) ==
    CASE identifier = << "version_name" >>      -> Some(<< "Crystal Client" >>)
      [] identifier = << "game_directory" >>    -> Some(<< "/launcher/instances" >>)
      [] identifier = << "assets_root" >>       -> Some(<< "/launcher/common", "/", "assets" >>)
      [] identifier = << "assets_index_name" >> -> Some(<< "1.8" >>)
      [] identifier = << "user_properties" >>   -> Some(<< "{", "}" >>)
      [] identifier = << "version_type" >>      -> Some(<< "release" >>)
      [] OTHER                                  -> None

\* The body of the loop of _resolveMcArgs for one token.
ResolveToken(tok) ==
    IF IsNull(argDiscovery(tok)) THEN tok
    ELSE LET val == ArgValue(Val(argDiscovery(tok)))
         IN  IF IsNull(val) THEN tok ELSE Val(val)

\* _resolveMcArgs(): the tokens resolved, then the resolution of the game
\* window (pushed as a boolean and as numbers).
_resolveMcArgs(mcArgs, fullscreen) ==
    [i \in DOMAIN mcArgs |-> ResolveToken(mcArgs[i])]
        \o (IF fullscreen
            THEN << << "--fullscreen" >>, << "true" >> >>
            ELSE << << "--width" >>, << "1280" >>, << "--height" >>, << "720" >> >>)

(***************************************************************************)
(* Runtime discovery and the launch attempt: actions.                      *)
(***************************************************************************)
\* The variables of the download engine.
assetVars == << versionData, indexCached, fs, dlqueue, dlsize, callback, totaldlsize,
                progress, pc, pdq, sap, pcVE, extracting, classpath, rulesOut, tasks,
                runs, signals, nComplete, nError, done >>

\* No JavaGuard call was made yet.
NoCall == [fn |-> "none"]

\* _validateJVMProperties applied to the output of some binary.  guard
\* holds one call: each call is made from the state before any call.
ValidateJVMProperties ==
    /\ guard = NoCall
    /\ \E props \in SeqsUpTo(PropertyLines, MaxLines) :
           guard' = [fn |-> "_validateJVMProperties", stderr |-> props,
                     result |-> _validateJVMProperties(props)]
    /\ UNCHANGED << platform, assetVars, host, launch >>

\* _sortValidJavaArray applied to some array of candidates.
SortValidJavaArray ==
    /\ guard = NoCall
    /\ \E validArr \in SeqsUpTo(Candidates, MaxCandidates) :
           \E r \in _sortValidJavaArray(validArr) :
               guard' = [fn |-> "_sortValidJavaArray", validArr |-> validArr, result |-> r]
    /\ UNCHANGED << platform, assetVars, host, launch >>

\* _validateJavaBinary applied to the executable under a root, or to the
\* root itself.
ValidateJavaBinary ==
    /\ guard = NoCall
    /\ \E binaryExecPath \in Roots(platform)
                                \cup {javaExecFromRoot(r, platform) : r \in Roots(platform)} :
           LET v == _validateJavaBinary(host, binaryExecPath, platform)
           IN  guard' = [fn |-> "_validateJavaBinary", binaryExecPath |-> binaryExecPath,
                         ran |-> v.ran, outcome |-> v.outcome]
    /\ UNCHANGED << platform, assetVars, host, launch >>

\* validateJava(dataDir) on the host.
ValidateJava ==
    /\ guard = NoCall
    /\ \E d \in validateJava(host, platform) :
           guard' = [fn |-> "validateJava", rootArr |-> d.rootArr,
                     validArr |-> d.validArr, result |-> d.result]
    /\ UNCHANGED << platform, assetVars, host, launch >>

\* _resolveMcArgs() of a ProcessBuilder made with some template.
ResolveMcArgs ==
    /\ guard = NoCall
    /\ \E mcArgs \in McArgsTemplates, fullscreen \in BOOLEAN :
           guard' = [fn |-> "_resolveMcArgs", mcArgs |-> mcArgs, fullscreen |-> fullscreen,
                     result |-> _resolveMcArgs(mcArgs, fullscreen)]
    /\ UNCHANGED << platform, assetVars, host, launch >>

\* The click on the launch button: without a configured executable the
\* system scan starts, otherwise the configured one is validated first.
LaunchClick ==
    /\ launch.enabled
    /\ \E jExe \in ConfiguredExecutables(platform) :
           launch' = IF jExe = NoPath
                     THEN asyncSystemScan([launch EXCEPT !.jExe = jExe, !.enabled = FALSE])
                     ELSE [launch EXCEPT !.jExe = jExe, !.pc = "validateBinary",
                                         !.enabled = FALSE]
    /\ UNCHANGED << platform, assetVars, host, guard >>

\* _validateJavaBinary(jExe) resolved: dlAsync() when valid, else the scan.
JavaBinaryValidated ==
    /\ launch.pc = "validateBinary"
    /\ LET v == _validateJavaBinary(host, launch.jExe, platform).outcome
       IN  /\ ~v.threw
           /\ launch' = IF v.value.valid
                        THEN [launch EXCEPT !.pc = "dlAsync"]
                        ELSE asyncSystemScan(launch)
    /\ UNCHANGED << platform, assetVars, host, guard >>

\* The worker ran validateJava and its reply arrived: without a runtime the
\* context is changed and _enqueueOpenJDK is sent; with one, it is saved
\* and dlAsync() is called.
ValidateJavaReply ==
    /\ launch.pc = "scan"
    /\ \E d \in validateJava(host, platform) :
         \E result \in WorkerResults(d.result) :
           launch' = IF NoRuntimeFound(result)
                     THEN [launch EXCEPT !.pc = "enqueue",
                                         !.discovery = Some(d.result),
                                         !.sent = @ \o << "changeContext", "_enqueueOpenJDK" >>]
                     ELSE [launch EXCEPT !.pc = "dlAsync",
                                         !.discovery = Some(d.result),
                                         !.jExe = result]
    /\ UNCHANGED << platform, assetVars, host, guard >>

\* The reply to _enqueueOpenJDK (true when a build was found): on true the
\* java queue is processed, else the failure overlay is shown and the worker
\* disconnected.
EnqueueOpenJDKReply ==
    /\ launch.pc = "enqueue"
    /\ \E verData \in _latestOpenJDK(platform) :
           LET result == ~IsNull(verData)
           IN  launch' = IF result = TRUE
                         THEN [launch EXCEPT !.pc = "download", !.build = verData,
                                             !.sent = Append(@, "processDlQueues")]
                         ELSE [launch EXCEPT !.pc = "failed", !.prov = "noBuild",
                                             !.overlay = TRUE]
    /\ UNCHANGED << platform, assetVars, host, guard >>

\* The fetch of the runtime fails: the worker's 'error' is logged by the
\* message handler and nothing else follows, the callback is never applied.
JavaDownloadError ==
    /\ launch.pc = "download"
    /\ launch' = [launch EXCEPT !.pc = "errorLogged", !.prov = "download"]
    /\ UNCHANGED << platform, assetVars, host, guard >>

\* 'complete', 'download': the archive is written, the callback extracts it
\* and the page shows 'Extracting'.
JavaDownloadComplete ==
    /\ launch.pc = "download"
    /\ launch' = [launch EXCEPT !.pc = "extracting"]
    /\ UNCHANGED << platform, assetVars, host, guard >>

\* The handler of 'complete', 'java': the executable is saved, 'Java
\* Installed!' is shown and dlAsync() is called.
JavaInstalled(l) ==
    [l EXCEPT !.pc = "dlAsync",
              !.jExe = javaExecFromRoot(RuntimeDir \o << "jre8" >>, platform)]

\* The extraction fails: 'complete', 'java' all the same from the zip
\* branch, a logged error and no signal from the tar.gz branch.
JavaExtractError ==
    /\ launch.pc = "extracting"
    /\ launch' = IF ExtractErrorEmitsComplete(Val(launch.build))
                 THEN JavaInstalled([launch EXCEPT !.prov = "extract"])
                 ELSE [launch EXCEPT !.pc = "extractLogged", !.prov = "extract"]
    /\ UNCHANGED << platform, assetVars, host, guard >>

\* 'complete', 'java' after an extraction that worked.
JavaComplete ==
    /\ launch.pc = "extracting"
    /\ launch' = JavaInstalled(launch)
    /\ UNCHANGED << platform, assetVars, host, guard >>

\* What the handler of the validateEverything reply saw: whether
\* m.result.versionData was there, and whether pb.build() threw.
validateEverythingReply(allGood, threw) ==
    [listener |-> "validateEverything", versionData |-> allGood, threw |-> threw]

\* dlAsync(): the reply of the worker to validateEverything.  Without
\* version data, or when build() throws, the launch failure is shown;
\* else the game process is spawned and its listeners are bound.
ValidateEverythingReply ==
    /\ launch.pc = "dlAsync"
    /\ \E allGood \in BOOLEAN, threw \in BOOLEAN, hideLauncher \in BOOLEAN :
           IF allGood /\ ~threw
           THEN /\ Len(launch.procs) < MaxSpawns
                /\ launch' = [launch EXCEPT
                                  !.pc = "running",
                                  !.procs = build(@),
                                  !.label = "Running",
                                  !.window = IF hideLauncher THEN "hidden" ELSE @,
                                  !.event = validateEverythingReply(TRUE, FALSE)]
           ELSE launch' = showLaunchFailure(
                              [launch EXCEPT !.pc = "launchFailed",
                                             !.event = validateEverythingReply(
                                                           allGood, allGood /\ threw)],
                              "Error During Launch")
    /\ UNCHANGED << platform, assetVars, host, guard >>

\* A chunk of stdout of a running game process.
GameOutput ==
    /\ Running(launch.procs) # {}
    /\ \E data \in Chunks :
         \E report \in IF crashTest(data) THEN Reports ELSE {"none"} :
           launch' = gameStateChange(launch, data, report)
    /\ UNCHANGED << platform, assetVars, host, guard >>

\* A chunk of stderr of a running game process.
GameErrorOutput ==
    /\ Running(launch.procs) # {}
    /\ \E mainClassMissing \in BOOLEAN :
           launch' = gameErrorListener(launch, mainClassMissing)
    /\ UNCHANGED << platform, assetVars, host, guard >>

\* 'close' of a game process: its temporary native directory is removed, or
\* the error of the removal is logged.
GameClose ==
    /\ \E i \in Running(launch.procs), removed \in BOOLEAN :
           launch' = [launch EXCEPT !.procs[i] = close(@, removed),
                                    !.event = [listener |-> "close", proc |-> i,
                                               removed |-> removed]]
    /\ UNCHANGED << platform, assetVars, host, guard >>

(***************************************************************************)
(* JavaGuard._scanRegistry: the callbacks of the registry queries.         *)
(*                                                                         *)
(* While a scan runs, guard holds the registry it reads and the locals of  *)
(* the call: per key where its queries stand, numDone and the sub-keys     *)
(* whose JavaHome lookup has not called back; keysDone; the candidates;    *)
(* the number of resolve(candidates) calls and the set the first one       *)
(* passed on.                                                              *)
(***************************************************************************)
regKeys == << "Java Runtime Environment", "Java Development Kit" >>

\* A sub-key of a registry key: its name, and the JavaHome value the lookup
\* gives (None: the lookup calls back with an error and no item).
SubKey(vKey, javaHome) == [vKey |-> vKey, javaHome |-> javaHome]

SubKeys ==
    { SubKey(<< "1", ".", "8" >>, Some(<< "C:", "Program Files", "Java", "jre1.8.0_152" >>)),
      SubKey(<< "1", ".", "8", ".", "0_152" >>,
             Some(<< "C:", "Program Files", "Java", "jdk1.8.0_152" >>)),
      SubKey(<< "1", ".", "8" >>, Some(<< "C:", "Program Files (x86)", "Java", "jre8" >>)),
      SubKey(<< "1", ".", "7" >>, Some(<< "C:", "Program Files", "Java", "jre7" >>)),
      SubKey(<< "1", ".", "8" >>, None) }

\* What the queries on one key find: the key is absent; its listing fails;
\* or it lists sub-keys.
RegKeyStates ==
    { [exists |-> FALSE, err |-> FALSE, javaVers |-> << >>],
      [exists |-> TRUE, err |-> TRUE, javaVers |-> << >>] }
    \cup { [exists |-> TRUE, err |-> FALSE, javaVers |-> v] :
               v \in SeqsUpTo(SubKeys, MaxSubKeys) }

Registries == [DOMAIN regKeys -> RegKeyStates]

\* parseFloat(vKey) === 1.8: the digits up to the second point are read.
parseFloatIs18(vKey) ==
    /\ Len(vKey) >= 3
    /\ vKey[1] = "1"
    /\ vKey[2] = "."
    /\ vKey[3] = "8"

\* keysDone++ and, when that makes regKeys.length, resolve(candidates).
RegKeyDone(s) ==
    LET n == s.keysDone + 1
    IN  [s EXCEPT !.keysDone = n,
                  !.resolved = IF n = Len(regKeys) THEN @ + 1 ELSE @,
                  !.result = IF n = Len(regKeys) /\ s.resolved = 0
                             THEN Some(s.candidates) ELSE @]

\* numDone++ of key i and, when that makes javaVers.length, the key is done.
SubKeyDone(s, i) ==
    LET n == s.keys[i].numDone + 1
        s1 == [s EXCEPT !.keys[i].numDone = n]
    IN  IF n = Len(s.reg[i].javaVers) THEN RegKeyDone(s1) ELSE s1

\* The for loop of the key.keys callback from sub-key j on: a lookup is
\* started for a 1.8 sub-key, any other is done at once.
RECURSIVE javaVersLoop(_, _, _)
javaVersLoop(s, i, j) ==
    IF j > Len(s.reg[i].javaVers) THEN s
    ELSE IF parseFloatIs18(s.reg[i].javaVers[j].vKey)
         THEN javaVersLoop([s EXCEPT !.keys[i].pending = @ \cup {j}], i, j + 1)
         ELSE javaVersLoop(SubKeyDone(s, i), i, j + 1)

\* _scanRegistry(): keyExists is called on both keys.
ScanRegistry ==
    /\ guard = NoCall
    /\ \E reg \in Registries :
           guard' = [fn |-> "_scanRegistry", reg |-> reg,
                     keys |-> [i \in DOMAIN regKeys |->
                                  [pc |-> "keyExists", numDone |-> 0, pending |-> {},
                                   threw |-> FALSE]],
                     keysDone |-> 0, candidates |-> {}, resolved |-> 0, result |-> None]
    /\ UNCHANGED << platform, assetVars, host, launch >>

\* The callback of key.keyExists for key i.
KeyExistsCallback(i) ==
    /\ guard.fn = "_scanRegistry"
    /\ guard.keys[i].pc = "keyExists"
    /\ guard' = IF guard.reg[i].exists
                THEN [guard EXCEPT !.keys[i].pc = "keys"]
                ELSE RegKeyDone([guard EXCEPT !.keys[i].pc = "done"])
    /\ UNCHANGED << platform, assetVars, host, launch >>

\* The callback of key.keys for key i.
KeysCallback(i) ==
    /\ guard.fn = "_scanRegistry"
    /\ guard.keys[i].pc = "keys"
    /\ guard' = IF guard.reg[i].err \/ Len(guard.reg[i].javaVers) = 0
                THEN RegKeyDone([guard EXCEPT !.keys[i].pc = "done"])
                ELSE javaVersLoop([guard EXCEPT !.keys[i].pc = "done"], i, 1)
    /\ UNCHANGED << platform, assetVars, host, launch >>

\* The callback of javaVer.get('JavaHome') for sub-key j of key i.  After
\* an error res is null and res.value throws out of the callback: the
\* sub-key is never counted.
JavaHomeCallback(i, j) ==
    /\ guard.fn = "_scanRegistry"
    /\ j \in guard.keys[i].pending
    /\ LET res == guard.reg[i].javaVers[j].javaHome
           s1 == [guard EXCEPT !.keys[i].pending = @ \ {j}]
       IN  guard' = IF IsNull(res)
                    THEN [s1 EXCEPT !.keys[i].threw = TRUE]
                    ELSE SubKeyDone(
                             IF notX86(Val(res))
                             THEN [s1 EXCEPT !.candidates = @ \cup {Val(res)}]
                             ELSE s1, i)
    /\ UNCHANGED << platform, assetVars, host, launch >>

(***************************************************************************)
(* Util.mcVersionAtLeast.                                                  *)
(***************************************************************************)
\* The loop over the components of desired, from index i (from 0) on.
RECURSIVE mcVersionLoop(_, _, _)
mcVersionLoop(des, act, i) ==
    IF i >= Len(des) THEN TRUE
    ELSE IF ~NumGE(parseInt(At(act, i)), parseInt(At(des, i))) THEN FALSE
    ELSE mcVersionLoop(des, act, i + 1)

\* Util.mcVersionAtLeast(desired, actual)
mcVersionAtLeast(desired, actual) ==
    mcVersionLoop(split(desired, "."), split(actual, "."), 0)

\* The version strings of the universe: up to MaxComponents runs of digits
\* joined by points.
RECURSIVE Dotted(_)
Dotted(c) ==
    IF Len(c) = 1 THEN << c[1] >> ELSE << c[1], "." >> \o Dotted(Tail(c))

VersionStrings ==
    { Dotted(c) : c \in SeqsUpTo({"0", "1", "8", "10"}, MaxComponents) \ {<< >>} }

\* Util.mcVersionAtLeast applied to two versions.
McVersionAtLeast ==
    /\ guard = NoCall
    /\ \E desired \in VersionStrings, actual \in VersionStrings :
           guard' = [fn |-> "mcVersionAtLeast", desired |-> desired, actual |-> actual,
                     result |-> mcVersionAtLeast(desired, actual)]
    /\ UNCHANGED << platform, assetVars, host, launch >>

\* A host without any runtime.
NoHost(p) == [jvms |-> [r \in Roots(p) |-> None], registry |-> {}, javaHome |-> UndefinedString]

\* No JavaGuard call made, no launch attempted.
JavaIdle ==
    /\ guard = NoCall
    /\ launch = Ready

\* The state after new AssetGuard(commonPath, javaexec).
Constructed ==
    /\ dlqueue = EmptyQueues
    /\ dlsize = ZeroSizes
    /\ callback = NoCallbacks
    /\ totaldlsize = Num(0)
    /\ progress = 0
    /\ pc = "idle"
    /\ pdq = NoPdq
    /\ sap = NoSap
    /\ pcVE = "none"
    /\ extracting = {}
    /\ classpath = [threw |-> FALSE, cpArgs |-> << >>]
    /\ rulesOut = [lib |-> 0, result |-> FALSE]
    /\ tasks = 0
    /\ runs = 0
    /\ signals = << >>
    /\ nComplete = 0
    /\ nError = 0
    /\ done = NoOutcome

Init ==
    /\ platform = "linux"
    /\ host = NoHost(platform)
    /\ JavaIdle
    /\ versionData \in Manifests
    /\ indexCached \in BOOLEAN
    /\ fs \in InitialFS(versionData)
    /\ Constructed

Next ==
    \/ ValidateAssets
    \/ ValidateLibraries
    \/ \E force \in BOOLEAN : ValidateClient(force)
    \/ ValidateLogConfig
    \/ EnqueueOpenJDK
    \/ ProcessDlQueues
    \/ FetchFails
    \/ FetchNot200
    \/ FetchOk
    \/ DataChunk
    \/ WriteClose
    \/ ExtractFinish
    \/ VE_Start
    \/ VE_Manifest
    \/ VE_Index
    \/ VE_RequestFails

Spec == Init /\ [][Next]_vars

\* Library resolution alone, over the library descriptors of the universe.
InitLib ==
    /\ platform \in Platforms
    /\ host = NoHost(platform)
    /\ JavaIdle
    /\ versionData \in LibraryManifests
    /\ indexCached = TRUE
    /\ fs \in { [p \in PathsOf(versionData) |-> NoFile],
                [p \in PathsOf(versionData) |-> "c1"] }
    /\ Constructed

NextLib ==
    \/ ValidateRules
    \/ ValidateLibraries
    \/ ClasspathArg

SpecLib == InitLib /\ [][NextLib]_vars

\* The download engine at rest, nothing installed.
AssetsIdle ==
    /\ versionData = CHOOSE vd \in Manifests : TRUE
    /\ indexCached = FALSE
    /\ fs = [p \in PathsOf(versionData) |-> NoFile]
    /\ Constructed

\* The functions of JavaGuard that do not touch the host.
InitJVM ==
    /\ platform = "linux"
    /\ host = NoHost(platform)
    /\ AssetsIdle
    /\ JavaIdle

NextJVM ==
    \/ ValidateJVMProperties
    \/ SortValidJavaArray

SpecJVM == InitJVM /\ [][NextJVM]_vars

\* Runtime discovery on the hosts of the universe.
InitDiscovery ==
    /\ platform \in Platforms
    /\ host \in Hosts(platform)
    /\ AssetsIdle
    /\ JavaIdle

NextDiscovery ==
    \/ ValidateJavaBinary
    \/ ValidateJava

SpecDiscovery == InitDiscovery /\ [][NextDiscovery]_vars

\* One launch attempt on the hosts of the universe.
NextLaunch ==
    \/ LaunchClick
    \/ JavaBinaryValidated
    \/ ValidateJavaReply
    \/ EnqueueOpenJDKReply
    \/ JavaDownloadError
    \/ JavaDownloadComplete
    \/ JavaExtractError
    \/ JavaComplete

SpecLaunch == InitDiscovery /\ [][NextLaunch]_vars

\* Launches of the game on a host that has the runtime the launcher
\* installs.
InitGame ==
    /\ platform = "linux"
    /\ host = [NoHost(platform) EXCEPT !.jvms[RuntimeDir \o << "jre8" >>] = Some(Output152)]
    /\ AssetsIdle
    /\ JavaIdle

NextGame ==
    \/ LaunchClick
    \/ JavaBinaryValidated
    \/ ValidateJavaReply
    \/ ValidateEverythingReply
    \/ GameOutput
    \/ GameErrorOutput
    \/ GameClose

SpecGame == InitGame /\ [][NextGame]_vars

\* Asset validation and the drains after it, over the asset indexes of the
\* universe: entries with a lower-case hash, an upper-case hash and no hash.
IndexEntries ==
    {Obj("icons/icon.png", "aa11", 2), Obj("lang/en.lang", "BB22", 1),
     Obj("sounds/a.ogg", Null, 1)}

AssetManifests ==
    { VersionData("1.8.9", objs, << LibPlain >>, ClientJar, LogFile) :
          objs \in {o \in SeqsUpTo(IndexEntries, MaxObjects) :
                       \A i, j \in DOMAIN o : o[i].key = o[j].key => i = j} }

\* The version data without the entries that name no file.
Hashed(vd) == [vd EXCEPT !.objects = SelectSeq(@, LAMBDA o : o.hash # Null)]

\* The local file systems: any payload, or none, at the path of each asset.
AssetFS(vd) ==
    {f \in [PathsOf(Hashed(vd)) -> {NoFile, "c1", "c2"}] :
        \A q \in PathsOf(Hashed(vd)) :
            (\A j \in DOMAIN Hashed(vd).objects : q # AssetPath(Hashed(vd).objects[j].hash))
                => f[q] = NoFile}

InitAssets ==
    /\ platform = "linux"
    /\ host = NoHost(platform)
    /\ JavaIdle
    /\ versionData \in AssetManifests
    /\ indexCached \in BOOLEAN
    /\ fs \in AssetFS(versionData)
    /\ Constructed

NextAssets ==
    \/ ValidateAssets
    \/ ProcessDlQueues
    \/ FetchFails
    \/ FetchNot200
    \/ FetchOk
    \/ DataChunk
    \/ WriteClose

SpecAssets == InitAssets /\ [][NextAssets]_vars

\* One launch attempt from the click to the spawn of the game, on the hosts
\* of the universe.
NextAttempt ==
    \/ NextLaunch
    \/ ValidateEverythingReply

SpecAttempt == InitDiscovery /\ [][NextAttempt]_vars

\* Registry scans on a Windows host, over the registries of the universe
\* and every order of their callbacks.
InitRegistry ==
    /\ platform = "win32"
    /\ host = NoHost(platform)
    /\ AssetsIdle
    /\ JavaIdle

NextRegistry ==
    \/ ScanRegistry
    \/ \E i \in DOMAIN regKeys : KeyExistsCallback(i)
    \/ \E i \in DOMAIN regKeys : KeysCallback(i)
    \/ \E i \in DOMAIN regKeys, j \in 1..MaxSubKeys : JavaHomeCallback(i, j)

SpecRegistry == InitRegistry /\ [][NextRegistry]_vars

\* Version comparisons over the versions of the universe.
NextUtil == McVersionAtLeast

SpecUtil == InitJVM /\ [][NextUtil]_vars

\* The game arguments of the templates of the universe.
NextMcArgs == ResolveMcArgs

SpecMcArgs == InitJVM /\ [][NextMcArgs]_vars


\* The download engine with the steps that do not wait for the caller taken
\* in the end: a request settles (axios rejects after its timeout at the
\* latest), a stream that has bytes left delivers them, the write stream
\* closes after the last byte, an extraction comes to its end, and the
\* requests of validateEverything settle.
Fairness ==
    /\ WF_vars(FetchFails \/ FetchNot200 \/ FetchOk)
    /\ WF_vars(DataChunk)
    /\ WF_vars(WriteClose)
    /\ WF_vars(ExtractFinish)
    /\ WF_vars(VE_Manifest \/ VE_Index \/ VE_RequestFails)

FairSpec == Init /\ [][Next]_vars /\ Fairness

(***************************************************************************)
(* Properties.                                                             *)
(***************************************************************************)
\* The file at the destination of artifact a exists and has the hash a names.
HashMatches(f, a) ==
    /\ f[a.to] # NoFile
    /\ a.hash # Null
    /\ _calculateHash(f[a.to], "sha1") = toLowerCase(a.hash)

\* The step is the 'close' of the write of the current artifact.
WriteCompletes == pc = "stream" /\ pc' # "stream"

\* No 'error' signal among the signals of the step.
NoErrorSignal ==
    /\ nError' = nError
    /\ \A i \in DOMAIN signals' : signals'[i].ev # "error"

\* After the current artifact the loop goes on: to the next artifact of the
\* queue, or past the last one to the reset of the category's tracker.
DrainGoesOn ==
    IF sap.idx < Len(sap.dlQueue)
    THEN pc' = "fetch" /\ sap'.identifier = sap.identifier /\ sap'.idx = sap.idx + 1
    ELSE dlqueue'[sap.identifier] = << >> /\ dlsize'[sap.identifier] = 0

\* C1: when the fetch of an artifact fails during a drain, an 'error' signal
\* is emitted, the drain is not abandoned (the remaining artifacts are still
\* fetched) and the queue of the category is reset to empty at its end.
C1_FailedFetchKeepsDraining ==
    done.result \in {"failed", "not200"} =>
        /\ nError > 0
        /\ pc \in {"fetch", "stream", "idle"}
        /\ pc = "idle" => \A c \in Categories : dlqueue[c] = << >>

\* C2: once every requested category of a processDlQueues run, or of a
\* validateEverything run, has been drained, 'complete'/'download' has been
\* emitted exactly once.
C2_CompleteExactlyOnce ==
    ( /\ runs > 0
      /\ pc = "idle"
      /\ pdq.identifiers # << >>
      /\ pdq.k = Len(pdq.identifiers)
      /\ pcVE \in {"none", "done"} )
    => nComplete = 1

\* C3: in every reachable state the dlsize of every tracker is the sum of
\* the sizes of the artifacts in its dlqueue.
C3_DlsizeIsSumOfQueue ==
    \A c \in Categories : dlsize[c] = SumSizes(dlqueue[c])

\* Validations and a run that failed have left two artifacts in the files queue.
C3_Witness ==
    /\ runs > 0
    /\ Len(dlqueue["files"]) >= 2
    /\ dlsize["files"] >= 3

\* The artifacts a step puts into the queue of category c: the ones appended
\* to the files queue, the members of a rebuilt assets or libraries queue.
Enqueued(c) ==
    IF c = "files"
    THEN {dlqueue'[c][i] : i \in (Len(dlqueue[c]) + 1)..Len(dlqueue'[c])}
    ELSE IF dlqueue'[c] # dlqueue[c]
         THEN {dlqueue'[c][i] : i \in DOMAIN dlqueue'[c]}
         ELSE {}

\* C4 (as stated): no step of validateAssets, validateLibraries,
\* validateClient or validateLogConfig, with whatever arguments, enqueues an
\* artifact whose destination file exists with the matching hash.
C4_NeverEnqueuesIntact ==
    [][\A c \in {"assets", "libraries", "files"} :
           \A a \in Enqueued(c) : ~HashMatches(fs, a)]_vars

\* C4 (amended): an artifact whose destination file exists with the matching
\* hash is enqueued by no validation step, except the client jar by
\* validateClient called with force = true.
C4_NeverEnqueuesIntactUnlessForced ==
    [][\A c \in {"assets", "libraries", "files"} :
           \A a \in Enqueued(c) :
               HashMatches(fs, a) => (ValidateClient(TRUE) /\ a = ClientOf(versionData))]_vars

\* After a run that downloaded what was missing, validateAssets has been
\* repeated on intact assets and has left the assets queue empty.
C4_Witness ==
    /\ runs > 0
    /\ tasks >= 2
    /\ done.result = "written"
    /\ signals # << >>
    /\ signals = assetProgress(Len(versionData.objects))
    /\ dlqueue["assets"] = << >>
    /\ \A j \in DOMAIN versionData.objects : HashMatches(fs, AssetOf(versionData.objects[j]))

\* The rule list of the library has a disallow rule naming the OS of the platform.
DisallowsCurrent(lib, opSys) ==
    /\ ~IsNull(lib.rules)
    /\ \E j \in DOMAIN Val(lib.rules) :
           /\ Val(lib.rules)[j].action = "disallow"
           /\ Val(lib.rules)[j].os = mojangFriendlyOS(opSys)

InLibrariesQueue(lib) ==
    \E i \in DOMAIN dlqueue["libraries"] : dlqueue["libraries"][i].id = lib.name

OnClasspath(lib) ==
    \E i \in DOMAIN classpath.cpArgs :
        classpath.cpArgs[i] \in
            {LibraryPath(Val(lib.artifact).path)}
                \cup {LibraryPath(lib.classifiers[c].path) : c \in DOMAIN lib.classifiers}

\* C5: a library whose rules hold a disallow rule naming the current
\* platform is neither in the libraries queue built by validateLibraries nor
\* on the classpath built by classpathArg, whatever its other rules are.
C5_DisallowedNeverQueuedNorOnClasspath ==
    \A j \in DOMAIN versionData.libraries :
        DisallowsCurrent(versionData.libraries[j], platform) =>
            /\ ~InLibrariesQueue(versionData.libraries[j])
            /\ ~OnClasspath(versionData.libraries[j])

\* The result the claim of C6 gives for a library: without rules the natives
\* decide; with rules the first rule naming the current OS decides.
IncludedByFirstMatch(lib, opSys) ==
    IF IsNull(lib.rules)
    THEN IsNull(lib.natives) \/ mojangFriendlyOS(opSys) \in DOMAIN Val(lib.natives)
    ELSE RulesLoopFirstMatch(Val(lib.rules), 1, opSys)

\* The result when the first rule carrying both an action and an OS decides,
\* whichever OS it names: allow includes iff it names the current OS,
\* disallow includes iff it names another one.
IncludedByFirstOsRule(lib, opSys) ==
    IF IsNull(lib.rules)
    THEN IsNull(lib.natives) \/ mojangFriendlyOS(opSys) \in DOMAIN Val(lib.natives)
    ELSE LET rules == Val(lib.rules)
             d == {j \in DOMAIN rules :
                      rules[j].action \in {"allow", "disallow"} /\ rules[j].os # Null}
         IN  IF d = {} THEN TRUE
             ELSE LET j == CHOOSE k \in d : \A l \in d : k <= l
                  IN  (rules[j].action = "allow") <=> (rules[j].os = mojangFriendlyOS(opSys))

C7_RejectedLibraryExcluded ==
    \A j \in DOMAIN versionData.libraries :
        ~validateRules(versionData.libraries[j].rules, versionData.libraries[j].natives,
                       platform) =>
            /\ ~InLibrariesQueue(versionData.libraries[j])
            /\ ~OnClasspath(versionData.libraries[j])

\* Off Windows, validateLibraries and classpathArg have both acted on a
\* manifest whose first library has no rules and natives for windows only.
C7_Witness ==
    /\ platform # "win32"
    /\ IsNull(versionData.libraries[1].rules)
    /\ versionData.libraries[1].natives = NativesWindows
    /\ dlqueue["libraries"] # << >>
    /\ Len(classpath.cpArgs) >= 2

\* C8: when the content length of the response differs from the expected
\* size, the 'close' of the write validates the file by hash and logs the
\* match (a warning) or the corruption accordingly; the artifact is written,
\* no 'error' signal is emitted and the drain goes on.
C8_SizeMismatchRevalidatedByHash ==
    [][(WriteCompletes /\ NumNE(sap.contentLength, Num(CurAsset.size))) =>
           /\ done'.asset = << CurAsset >>
           /\ done'.result = "written"
           /\ done'.checked
           /\ done'.log = IF HashMatches(fs', CurAsset) \/
                             (CurAsset.hash = Null /\ fs'[CurAsset.to] # NoFile)
                          THEN "match" ELSE "corrupt"
           /\ NoErrorSignal
           /\ DrainGoesOn]_vars

\* An artifact announced with another length was written with the wrong
\* payload, the corruption was logged and the next artifact is being fetched.
C8_Witness ==
    /\ done.result = "written"
    /\ done.checked
    /\ done.log = "corrupt"
    /\ nError = 0
    /\ pc = "fetch"
    /\ sap.idx = 2

\* C9: the callback of a tracker has been applied exactly once to an
\* artifact whose write completed, by the time the loop is at the next
\* artifact, and never to an artifact whose fetch failed.
C9_CallbackOncePerWrittenArtifact ==
    /\ done.result = "written" => done.cbCalls = (IF done.hadCallback THEN 1 ELSE 0)
    /\ done.result \in {"failed", "not200"} => done.cbCalls = 0
    /\ (pc \in {"fetch", "stream"} /\ sap.idx > 1) =>
           /\ done.asset = << sap.dlQueue[sap.idx - 1] >>
           /\ done.result = "written"
           /\ done.hadCallback = sap.callback
    /\ \A to \in extracting : fs[to] # NoFile

\* The archive of the java queue has been written and its callback applied.
C9_Witness ==
    /\ done.result = "written"
    /\ done.hadCallback
    /\ done.cbCalls = 1
    /\ done.asset[1].to \in extracting

\* Each 'progress'/'download' signal of the step carries the progress reached.
DownloadSignalsCarryProgress ==
    \A i \in DOMAIN signals' :
        (signals'[i].ev = "progress" /\ signals'[i].data = "download") =>
            signals'[i].value = Num(progress')

\* C10: within a processDlQueues run the progress never decreases, and each
\* 'progress'/'download' signal carries the progress reached.
C10_ProgressNonDecreasing ==
    [][(pc \in {"fetch", "stream"}) =>
           (progress' >= progress /\ DownloadSignalsCarryProgress)]_vars

\* A chunk of the second artifact of a queue has been signalled.
C10_Witness ==
    /\ pc = "stream"
    /\ sap.idx = 2
    /\ signals # << >>
    /\ signals[1].ev = "progress"
    /\ signals[1].data = "download"
    /\ signals[1].value = Num(progress)
    /\ progress >= 2

\* The step in which a processDlQueues call begins: as a task, or at the
\* end of the validations of validateEverything.
RunStarts ==
    \/ runs' = runs + 1 /\ pcVE' = pcVE
    \/ pcVE \in {"manifest", "index"} /\ pcVE' \in {"download", "done"}

\* The categories named by a list of identifiers.
Requested(identifiers) == {identifiers[i] : i \in DOMAIN identifiers}

RECURSIVE SizeOfAll(_, _)
SizeOfAll(cats, sz) ==
    IF cats = {} THEN 0
    ELSE LET c == CHOOSE x \in cats : TRUE
         IN  sz[c] + SizeOfAll(cats \ {c}, sz)

\* The total after the response for artifact a announced the length cl: the
\* expected size of a is replaced by cl when they differ.
TotalAfterResponse(total, a, cl) ==
    IF cl.nan THEN NaN
    ELSE IF cl.val = a.size \/ total.nan THEN total
    ELSE Num(total.val - a.size + cl.val)

\* C11: when a processDlQueues run starts the progress is 0 and the total is
\* the sum of the dlsize of exactly the requested categories; after that the
\* total changes only when a response arrives, by the replacement of the
\* expected size of the artifact by the content length of the response.
C11_TotalsAtStartAndAfter ==
    [][/\ RunStarts =>
              /\ progress' = 0
              /\ totaldlsize' = Num(SizeOfAll(Requested(pdq'.identifiers), dlsize'))
       /\ (~RunStarts /\ pc = "fetch" /\ pc' = "stream") =>
              totaldlsize' = TotalAfterResponse(totaldlsize, CurAsset, sap'.contentLength)
       /\ (~RunStarts /\ ~(pc = "fetch" /\ pc' = "stream")) =>
              totaldlsize' = totaldlsize]_vars

\* validateEverything has begun its run with artifacts in the assets, the
\* libraries and the files queue: the total is the sum of the three sizes.
C11_Witness ==
    /\ pdq.identifiers = DefaultIdentifiers
    /\ pc = "fetch"
    /\ sap.identifier = "assets"
    /\ sap.idx = 1
    /\ dlsize["assets"] > 0
    /\ dlsize["libraries"] > 0
    /\ dlsize["files"] > 0
    /\ progress = 0
    /\ totaldlsize = Num(dlsize["assets"] + dlsize["libraries"] + dlsize["files"])

\* The step emits 'complete'/'download'.
EmitsCompleteDownload ==
    \E i \in DOMAIN signals' : signals'[i] = CompleteDownload

\* C12: 'complete'/'download' is emitted only when every requested category
\* has been drained: in the state it is emitted in, no artifact is being
\* fetched and every requested tracker is empty with dlsize 0.
C12_CompleteOnlyWhenDrained ==
    [][EmitsCompleteDownload =>
           /\ pc' = "idle"
           /\ \A c \in Requested(pdq'.identifiers) :
                  dlqueue'[c] = << >> /\ dlsize'[c] = 0]_vars

\* A run over several categories that downloaded artifacts has ended with
\* the signal.
C12_Witness ==
    /\ nComplete > 0
    /\ signals # << >>
    /\ signals[Len(signals)] = CompleteDownload
    /\ done.result = "written"
    /\ Len(pdq.identifiers) > 1
    /\ pc = "idle"


ValueOf(line) == trim(At(split(line, "="), 1))

\* Some line of props gives sun.arch.data.model = 64.
HasArch64Line(props) ==
    \E i \in DOMAIN props :
        /\ includes(props[i], "sun.arch.data.model")
        /\ StrictEq(parseInt(ValueOf(props[i])), Num(64))

\* Some line of props gives a java.runtime.version of major 8, update > 52.
HasAcceptedVersionLine(props) ==
    \E i \in DOMAIN props :
        /\ includes(props[i], "java.runtime.version")
        /\ At(split(props[i], "="), 1) # UndefinedString
        /\ LET verOb == parseJavaRuntimeVersion(ValueOf(props[i]))
           IN  (~verOb.threw) /\ VersionAccepted(verOb.value)

\* C14: _validateJVMProperties reports valid = true only if the output has
\* a line giving sun.arch.data.model = 64 and a line giving a
\* java.runtime.version of major 8 with an update above 52; an output in
\* which one of the two checks does not succeed is never reported valid.
C14_ValidOnlyWithArchAndVersion ==
    (guard.fn = "_validateJVMProperties" /\ ~guard.result.threw /\ guard.result.value.valid)
        => (HasArch64Line(guard.stderr) /\ HasAcceptedVersionLine(guard.stderr))

RanksAbove(a, b) ==
    /\ ~IsNull(a.version)
    /\ ~IsNull(b.version)
    /\ LET av == Val(a.version)
           bv == Val(b.version)
       IN  \/ NumGT(av.update, bv.update)
           \/ StrictEq(av.update, bv.update) /\ NumGT(av.build, bv.build)
           \/ /\ StrictEq(av.update, bv.update)
              /\ StrictEq(av.build, bv.build)
              /\ ~isJdkPath(a.execPath)
              /\ isJdkPath(b.execPath)

\* C16: the comparator of _sortValidJavaArray puts build 1 before build 0
\* of one update, update 60 before update 50 whatever the builds, and at
\* one version a JRE path before a path containing 'jdk'; an array of two
\* such candidates comes back with the higher one first.
C16_ComparatorRanksVersionThenJre ==
    guard.fn = "_sortValidJavaArray" =>
        /\ \A i, j \in DOMAIN guard.validArr :
               RanksAbove(guard.validArr[i], guard.validArr[j])
                   => /\ compare(guard.validArr[i], guard.validArr[j]) = Returned(-1)
                      /\ compare(guard.validArr[j], guard.validArr[i]) = Returned(1)
        /\ (Len(guard.validArr) = 2 /\ RanksAbove(guard.validArr[2], guard.validArr[1]))
               => guard.result = Returned(<< guard.validArr[2], guard.validArr[1] >>)

\* Update 50 build 1 and update 60 build 0 were sorted, in that order: the
\* one of update 60 came back first.
C16_Witness ==
    /\ guard.fn = "_sortValidJavaArray"
    /\ Len(guard.validArr) = 2
    /\ guard.validArr[1].version = Some(Version8(50, Num(1)))
    /\ guard.validArr[2].version = Some(Version8(60, Num(0)))
    /\ ~guard.result.threw
    /\ guard.result.value[1] = guard.validArr[2]

\* Every candidate of arr has a version whose update and build are numbers.
WellFormed(arr) ==
    \A i \in DOMAIN arr :
        /\ ~IsNull(arr[i].version)
        /\ ~Val(arr[i].version).update.nan
        /\ ~Val(arr[i].version).build.nan

\* compare(a, b) and compare(b, a) have opposite signs or are both 0.
Antisymmetric(a, b) == compare(a, b).value = 0 - compare(b, a).value

\* a before b and b before c make a before c.
Transitive(a, b, c) ==
    (compare(a, b).value < 0 /\ compare(b, c).value < 0) => compare(a, c).value < 0

\* The arrays that hold the elements of arr in some order.
Reorderings(arr) ==
    {[i \in DOMAIN arr |-> arr[q[i]]] : q \in Perms(DOMAIN arr)}

\* C17: the comparator is a total order on candidates (antisymmetric and
\* transitive), and the candidate that comes first out of the sort is the
\* same in whatever order the candidates were handed in.
C17_ComparatorTotalOrder ==
    (guard.fn = "_sortValidJavaArray" /\ WellFormed(guard.validArr)) =>
        /\ \A i, j \in DOMAIN guard.validArr :
               Antisymmetric(guard.validArr[i], guard.validArr[j])
        /\ \A i, j, k \in DOMAIN guard.validArr :
               Transitive(guard.validArr[i], guard.validArr[j], guard.validArr[k])
        /\ \A arr \in Reorderings(guard.validArr) :
               \A r \in _sortValidJavaArray(arr) :
                   Len(arr) > 0 => r.value[1] = guard.result.value[1]

\* The gathered root validates: the binary under it is a valid runtime.
RootValidates(root) ==
    LET v == _validateJavaBinary(host, javaExecFromRoot(root, platform), platform).outcome
    IN  (~v.threw) /\ v.value.valid

\* C18: validateJava returns null exactly when no gathered candidate root
\* validates; otherwise it returns the executable path of a valid candidate
\* that no other valid candidate outranks.
C18_NullIffNoneValidElseBest ==
    guard.fn = "validateJava" =>
        /\ ~guard.result.threw
        /\ (guard.result.value = NoPath)
               <=> (\A i \in DOMAIN guard.rootArr : ~RootValidates(guard.rootArr[i]))
        /\ guard.result.value # NoPath =>
               \E i \in DOMAIN guard.validArr :
                   /\ guard.validArr[i].execPath = guard.result.value
                   /\ \A j \in DOMAIN guard.validArr :
                          ~RanksAbove(guard.validArr[j], guard.validArr[i])

\* The members of a sequence.
Range(q) == {q[i] : i \in DOMAIN q}

\* What the sources of candidates hold on the host: the registry scan, the
\* directories with a binary under Program Files, those under the launcher's
\* runtime directory, and JAVA_HOME when that directory exists.
RegistryResults == {r \in host.registry : notX86(r)}
InstalledUnder(scanDir) ==
    {r \in DOMAIN host.jvms : SubSeq(r, 1, Len(r) - 1) = scanDir /\ ~IsNull(host.jvms[r])}
ProgramFilesResults ==
    InstalledUnder(<< "C:", "Program Files", "Java" >>)
        \cup InstalledUnder(<< "C:", "Program Files", "AdoptOpenJDK" >>)
RuntimeDirResults == InstalledUnder(RuntimeDir)
JavaHomeResult ==
    IF host.javaHome # UndefinedString /\ ~IsNull(host.jvms[host.javaHome])
    THEN {host.javaHome} ELSE {}

\* C19 as stated: on Windows the candidates that discovery validates
\* always include the registry results, the results of the file system
\* scans and JAVA_HOME when it exists.
C19_CandidatesAlwaysIncludeScan ==
    (guard.fn = "validateJava" /\ platform = "win32") =>
        (RegistryResults \cup ProgramFilesResults \cup RuntimeDirResults \cup JavaHomeResult)
            \subseteq Range(guard.rootArr)

\* C19: on Windows the candidates that discovery validates are the registry
\* results; the results of the scan of Program Files only when the registry
\* gave none; the results of the scan of the launcher's runtime directory;
\* and JAVA_HOME when it exists and its path has no '(x86)'.
C19_ProgramFilesOnlyWithoutRegistry ==
    (guard.fn = "validateJava" /\ platform = "win32") =>
        Range(guard.rootArr) =
            RegistryResults
                \cup (IF RegistryResults = {} THEN ProgramFilesResults ELSE {})
                \cup RuntimeDirResults
                \cup {r \in JavaHomeResult : notX86(r)}

\* The registry gave a candidate, a valid runtime under Program Files is
\* known to the file system scan alone, and discovery did not consider it.
C19_Witness ==
    /\ guard.fn = "validateJava"
    /\ platform = "win32"
    /\ RegistryResults # {}
    /\ \E r \in ProgramFilesResults :
           /\ RootValidates(r)
           /\ r \notin RegistryResults \cup JavaHomeResult
           /\ r \notin Range(guard.rootArr)

\* The task was sent to the scan worker in this launch attempt.
Sent(task) == \E i \in DOMAIN launch.sent : launch.sent[i] = task

\* Discovery ran in this attempt and returned the path of a runtime.
DiscoveryReturnedPath ==
    /\ ~IsNull(launch.discovery)
    /\ ~Val(launch.discovery).threw
    /\ Val(launch.discovery).value # NoPath

\* C20: the provisioner (_enqueueOpenJDK, then the download of the java
\* category) is invoked only after discovery ran and returned no runtime;
\* when discovery returned a path it is never invoked in that attempt.
C20_ProvisionOnlyWithoutRuntime ==
    /\ Sent("_enqueueOpenJDK") => (~IsNull(launch.discovery) /\ ~DiscoveryReturnedPath)
    /\ Sent("processDlQueues") => Sent("_enqueueOpenJDK")
    /\ DiscoveryReturnedPath => launch.sent = << "validateJava" >>

\* Discovery returned a path, the attempt went on to dlAsync() with it and
\* nothing but validateJava was sent to the scan worker.
C20_Witness ==
    /\ DiscoveryReturnedPath
    /\ launch.pc = "dlAsync"
    /\ launch.jExe = Val(launch.discovery).value
    /\ ~Sent("_enqueueOpenJDK")


\* C21: a failure at any stage of the Java provisioning (no build, download,
\* extraction) ends in the provisioning-failed outcome shown to the caller
\* (the failure overlay), and the runtime is never taken as installed.
C21_ProvisionFailureReported ==
    launch.prov # "none" => launch.pc = "failed" /\ launch.overlay


\* C22: when the request of the manifest fails, validateEverything ends in
\* its catch block (it returns versionData null and the error) and emits no
\* signal.
C22_ManifestFailureReturnsError ==
    [][(pcVE = "manifest" /\ VE_RequestFails) => (pcVE' = "failed" /\ signals' = << >>)]_vars


\* The 'validate' signals among sigs, as their data.
ValidatePhases(sigs) ==
    LET v == SelectSeq(sigs, LAMBDA x : x.ev = "validate")
    IN  [j \in DOMAIN v |-> v[j].data]

\* The phases still to be signalled at a position of validateEverything.
PhasesAhead(at) ==
    CASE at = "manifest" -> << "version", "assets", "libraries", "files" >>
      [] at = "index"    -> << "assets", "libraries", "files" >>
      [] OTHER           -> << >>

IsPrefix(a, b) == Len(a) <= Len(b) /\ a = SubSeq(b, 1, Len(a))

\* The validate signals of a step continue the order version, assets,
\* libraries, files, none of them a second time.
PhasesInOrder == IsPrefix(ValidatePhases(signals'), PhasesAhead(pcVE))

\* A fetch of validateEverything starts only in or after the step that
\* emitted validate/files.
FetchAfterFiles ==
    (pc = "idle" /\ pc' = "fetch" /\ pdq'.caller = "validateEverything")
        => ValidatePhases(signals')[Len(ValidatePhases(signals'))] = "files"

\* A run that comes to its end has emitted complete/download once.
CompleteOnce == (pcVE # "done" /\ pcVE' = "done") => nComplete' = 1

\* C23: in a run of validateEverything the signals validate/version,
\* validate/assets, validate/libraries, validate/files and complete/download
\* come in this order, each once, and no fetch starts before validate/files.
C23_PhaseSignalsOnceInOrder ==
    [][PhasesInOrder /\ FetchAfterFiles /\ CompleteOnce]_vars


\* C24: at most one game process spawned by the launcher is running at any
\* time.
C24_OneGameProcess == Cardinality(Running(launch.procs)) <= 1


\* A library the server declares besides the version manifest, with the key
\* of LibPlain (com.a:foo) and another version.  classpathArg is given the
\* version manifest alone.
ServerDeclared == MkLib("com.a:foo:2", None, None)

\* The entries of a classpath that are the jar of one of the libraries.
EntriesOf(cpArgs, libs) ==
    {i \in DOMAIN cpArgs : \E lib \in libs : cpArgs[i] = LibraryPath(Val(lib.artifact).path)}

\* C25: with the Mojang-resolved LibPlain and the server-declared library of
\* the same version-independent key, the classpath classpathArg built holds
\* exactly one entry for the key, the server-declared jar.
C25_ServerLibraryOverrides ==
    (/\ ~classpath.threw
     /\ classpath.cpArgs # << >>
     /\ \E j \in DOMAIN versionData.libraries : versionData.libraries[j] = LibPlain)
        => /\ Cardinality(EntriesOf(classpath.cpArgs, {LibPlain, ServerDeclared})) = 1
           /\ EntriesOf(classpath.cpArgs, {LibPlain}) = {}


\* What the page shows of a launch.
LaunchShown(l) == << l.failure, l.overlay, l.enabled, l.label, l.window, l.pc >>

\* C26: the temporary native directory of a game process is there as long
\* as the process runs; the step in which the process closes removes it,
\* and a removal that fails is logged and changes nothing of the launch.
C26_TempDirRemovedAtClose ==
    [][/\ \A i \in DOMAIN launch'.procs :
              launch'.procs[i].running => launch'.procs[i].tempNativePath = "present"
       /\ \A i \in DOMAIN launch.procs :
              (launch.procs[i].running /\ ~launch'.procs[i].running) =>
                  /\ launch'.event.listener = "close"
                  /\ launch'.procs[i].tempNativePath =
                         (IF launch'.event.removed THEN "deleted" ELSE "present")
                  /\ LaunchShown(launch') = LaunchShown(launch)]_vars

\* A game process has closed and its temporary native directory is removed,
\* while that of another closed process could not be removed.
C26_Witness ==
    /\ \E i \in DOMAIN launch.procs :
           ~launch.procs[i].running /\ launch.procs[i].tempNativePath = "deleted"
    /\ \E i \in DOMAIN launch.procs :
           ~launch.procs[i].running /\ launch.procs[i].tempNativePath = "present"


\* The placeholders the specification names as recognized.
RecognizedNames ==
    {"version_name", "game_directory", "assets_root", "assets_index_name", "user_properties",
     "version_type", "auth_player_name", "auth_uuid", "auth_access_token", "user_type"}

IsPlaceholder(tok) == \E n \in PlaceholderNames : tok = Placeholder(n)

\* C27: _resolveMcArgs replaces every recognized placeholder token by a
\* value (the one of the launch where the launcher has it), passes every
\* other token through unchanged, and keeps the order of the tokens.
C27_PlaceholdersResolved ==
    guard.fn = "_resolveMcArgs" =>
        /\ Len(guard.result) >= Len(guard.mcArgs)
        /\ \A i \in DOMAIN guard.mcArgs :
               LET tok == guard.mcArgs[i]
               IN  IF \E n \in RecognizedNames : tok = Placeholder(n)
                   THEN /\ guard.result[i] # tok
                        /\ ~IsNull(ArgValue(<< tok[3] >>)) =>
                               guard.result[i] = Val(ArgValue(<< tok[3] >>))
                   ELSE IsPlaceholder(tok) \/ argDiscovery(tok) = None =>
                            guard.result[i] = tok


\* An entry of the asset index fails local validation: its file is missing,
\* or the file's hash is not the entry's; an entry without a hash names no
\* file, and a copy that is there would be trusted.
FailsLocal(f, o) ==
    IF o.hash = Null THEN TRUE
    ELSE f[AssetPath(o.hash)] = NoFile
            \/ _calculateHash(f[AssetPath(o.hash)], "sha1") # toLowerCase(o.hash)

InAssetsQueue(q, o) == \E i \in DOMAIN q : q[i].id = o.key

\* C28: after validateAssets the assets queue holds exactly the entries of
\* the index that fail local validation (so none when every asset is there
\* and intact), and a drain fetches assets only from a non-empty queue.
C28_QueueIffFailsLocal ==
    [][/\ ValidateAssets =>
              \A j \in DOMAIN versionData.objects :
                  InAssetsQueue(dlqueue'["assets"], versionData.objects[j])
                      <=> FailsLocal(fs, versionData.objects[j])
       /\ (ProcessDlQueues /\ dlqueue["assets"] = << >>) =>
              ~(pc' = "fetch" /\ sap'.identifier = "assets")]_vars


\* C29: a chunk of the game's output that holds the crash marker puts the
\* launch in the crashed state and the failure is shown; else a chunk that
\* is the client thread's 'Stopping!' line restores the launch control; any
\* other chunk changes nothing of the launch.
C29_TerminalStateFromOutput ==
    [][GameOutput =>
          LET data == launch'.event.data
          IN  IF crashTest(data)
              THEN /\ launch'.event.state = "crashed"
                   /\ launch'.failure = "Game Crash Detected"
                   /\ launch'.overlay
              ELSE IF stoppingTest(data)
              THEN /\ launch'.event.state = "exited"
                   /\ launch'.enabled
                   /\ launch'.label = "Launch"
              ELSE /\ launch'.event.state = "none"
                   /\ LaunchShown(launch') = LaunchShown(launch)]_vars


\* C30: within one drain no artifact is requested twice: a step of the
\* drain that leaves a request pending has moved on to a later artifact of
\* the queue or to a later category, and a failed request ends the drain.
C30_FetchedAtMostOnce ==
    [][/\ (pc \in {"fetch", "stream"} /\ pc' = "fetch") =>
              \/ pdq'.k > pdq.k
              \/ pdq'.k = pdq.k /\ sap'.idx > sap.idx
       /\ (pc = "rejected") => (pc' = "rejected")]_vars

\* The first artifact of a queue was written, the request of the second was
\* rejected, and the drain has ended there.
C30_Witness ==
    /\ pc = "rejected"
    /\ sap.idx = 2
    /\ done.result = "failed"


(***************************************************************************)
(* C31: every call of processDlQueues emits 'complete'/'download' in the   *)
(* end and its promise settles, whatever happens to the artifacts: once a  *)
(* call is waiting on its queues, a later state has the signal emitted and *)
(* the call no longer waiting.                                             *)
(***************************************************************************)
C31_EveryDrainCompletes ==
    (pdq.pending /\ pc = "fetch") ~> (~pdq.pending /\ nComplete > 0)

\* The step ends the drain of the current queue and emits 'complete'/'download'.
DrainCompletes ==
    /\ WriteCompletes
    /\ sap.idx = Len(sap.dlQueue)
    /\ nComplete' > nComplete

(***************************************************************************)
(* C32: when processDlQueues has completed, every artifact of the queue    *)
(* just drained that names a hash is on disk with that hash: a validation  *)
(* pass run at once (_validateLocal on each) would enqueue none of them.   *)
(***************************************************************************)
C32_DownloadedPassValidation ==
    [][DrainCompletes =>
           \A i \in DOMAIN sap.dlQueue :
               sap.dlQueue[i].hash # Null =>
                   _validateLocal(fs', sap.dlQueue[i].to, "sha1", sap.dlQueue[i].hash)]_vars

(***************************************************************************)
(* C33: no queue ever holds two artifacts with the same destination path:  *)
(* each destination appears at most once in the queue of its category.     *)
(***************************************************************************)
C33_DestinationsUnique ==
    \A c \in Categories :
        \A i, j \in DOMAIN dlqueue[c] :
            dlqueue[c][i].to = dlqueue[c][j].to => i = j

(***************************************************************************)
(* C34: in every 'progress'/'download' signal the bytes transferred are at *)
(* most the total expected that the same signal carries.                   *)
(***************************************************************************)
C34_ProgressWithinTotal ==
    \A i \in DOMAIN signals :
        (signals[i].ev = "progress" /\ signals[i].data = "download") =>
            NumGE(signals[i].total, signals[i].value)

\* The step spawns a game process.
Spawns == Len(launch'.procs) > Len(launch.procs)

\* The attempt has a runtime at hand: the configured executable was found
\* valid, or discovery returned one, or the provisioning of one came to its
\* end without a failure.
RuntimeAtHand(l) ==
    /\ l.jExe # NoPath
    /\ l.prov = "none"

(***************************************************************************)
(* C35: per launch click the game process is spawned at most once, only    *)
(* from dlAsync, with a runtime validated, discovered or provisioned, and  *)
(* with the version data validateEverything returned; when the reply       *)
(* carries no version data no process is spawned.                          *)
(***************************************************************************)
C35_SpawnOnceAfterJavaAndValidation ==
    [][/\ Spawns =>
            /\ Len(launch'.procs) = 1
            /\ launch.pc = "dlAsync"
            /\ RuntimeAtHand(launch)
            /\ launch'.event = validateEverythingReply(TRUE, FALSE)
       /\ (ValidateEverythingReply /\ ~launch'.event.versionData) => ~Spawns]_vars

\* The 'complete'/'java' signals among the signals of the step.
JavaCompletes == SelectSeq(signals', LAMBDA s : s = Sig("complete", "java"))

(***************************************************************************)
(* C36: in Java provisioning 'complete'/'download' has been emitted by the *)
(* run before 'complete'/'java' is, and 'complete'/'java' is emitted once  *)
(* for the runtime whose archive was written: by the step that ends its    *)
(* extraction and by no other.                                             *)
(***************************************************************************)
C36_DownloadCompleteBeforeJava ==
    [][/\ ExtractFinish =>
              /\ nComplete >= 1
              /\ Len(JavaCompletes) = 1
              /\ Cardinality(extracting) = 1
              /\ extracting' = {}
       /\ ~ExtractFinish => JavaCompletes = << >>]_vars

(***************************************************************************)
(* C37: validateJava resolves to an executable path or to null and never   *)
(* fails with an exception, on win32, darwin and linux, with JAVA_HOME     *)
(* naming an existing path or not.                                         *)
(***************************************************************************)
C37_ValidateJavaNeverThrows ==
    guard.fn = "validateJava" =>
        /\ ~guard.result.threw
        /\ \/ guard.result.value = NoPath
           \/ \E r \in DOMAIN host.jvms :
                  guard.result.value = javaExecFromRoot(r, platform)

\* Every query of the scan has called back.
AllCalledBack(s) ==
    \A i \in DOMAIN regKeys : s.keys[i].pc = "done" /\ s.keys[i].pending = {}

\* The JavaHome values of the 1.8 sub-keys of both keys without '(x86)'.
JavaHomes64(reg) ==
    UNION { { Val(reg[i].javaVers[j].javaHome) :
                j \in { k \in DOMAIN reg[i].javaVers :
                          /\ parseFloatIs18(reg[i].javaVers[k].vKey)
                          /\ ~IsNull(reg[i].javaVers[k].javaHome)
                          /\ notX86(Val(reg[i].javaVers[k].javaHome)) } } :
            i \in DOMAIN regKeys }

(***************************************************************************)
(* C38: _scanRegistry resolves exactly once: never twice, not before the   *)
(* existence check, the listing and every JavaHome lookup of both keys     *)
(* have called back, and once they all have, in whatever order; the set it *)
(* resolves to holds every JavaHome of a 1.8 sub-key without '(x86)'.      *)
(***************************************************************************)
C38_RegistryResolvesOnce ==
    guard.fn = "_scanRegistry" =>
        /\ guard.resolved <= 1
        /\ guard.resolved = 1 =>
               /\ AllCalledBack(guard)
               /\ JavaHomes64(guard.reg) \subseteq Val(guard.result)
        /\ AllCalledBack(guard) => guard.resolved = 1

\* The components of a version string, as numbers.
ComponentsOf(v) ==
    LET parts == split(v, ".") IN [i \in DOMAIN parts |-> DigitValue(parts[i][1])]

\* Component i of a version; a version that has fewer components counts 0.
ComponentAt(c, i) == IF i \in DOMAIN c THEN c[i] ELSE 0

\* a >= d in the dotted-version order: the first component that differs
\* decides, from component i on.
RECURSIVE DottedGE(_, _, _)
DottedGE(a, d, i) ==
    IF i > Len(a) /\ i > Len(d) THEN TRUE
    ELSE IF ComponentAt(a, i) # ComponentAt(d, i) THEN ComponentAt(a, i) > ComponentAt(d, i)
    ELSE DottedGE(a, d, i + 1)

(***************************************************************************)
(* C39: mcVersionAtLeast(desired, actual) is true iff the actual version   *)
(* is greater than or equal to the desired one in the dotted-version order *)
(* (lexicographic by component).                                           *)
(***************************************************************************)
C39_AtLeastIsDottedOrder ==
    guard.fn = "mcVersionAtLeast" =>
        (guard.result <=>
             DottedGE(ComponentsOf(guard.actual), ComponentsOf(guard.desired), 1))

=============================================================================
